---- MODULE Spec2Model ----
(***************************************************************************)
(* Image edit pipeline of the dental file manager: the useImageLoader hook *)
(* (two variants), the ImageEditor save flow (two variants), the encoder   *)
(* getCroppedImg and the two hosts that persist an edit (FilePreview and   *)
(* PatientDetails).                                                        *)
(***************************************************************************)
EXTENDS Integers, Sequences, FiniteSets, TLC

VARIABLES
    \* ---- useImageLoader (hook state, one mounted hook instance) ----
    hookVariant,   \* "ts": src/hooks/useImageLoader.ts, "legacy": unnamed/part_009
    url,           \* the url prop of the latest render
    mounted,       \* FALSE once the host component has unmounted
    imageUrl,      \* useState<string | null>(null)
    loading,       \* useState(true)
    error,         \* useState<string | null>(null)
    retryCount,    \* useState(0)
    tasks,         \* loadImage invocations that have not settled (and their timers)
    \* ---- ImageEditor + host (one edit session) ----
    editorVariant, \* "full": components/ImageEditor.tsx, "basic": components/ImageEditor/ImageEditor.tsx
    host,          \* "FilePreview" or "PatientDetails": who supplies onSave/onClose
    editorOpen,    \* the host renders the editor (isEditing / selectedImageUrl)
    crop, zoom, rotation, flipH, flipV, croppedAreaPixels,
    edits,         \* control interactions of the user in this session
    saving,        \* ImageEditor's saving flag
    runs,          \* handleSave runs that have not settled: run id -> [pc, payload, snap]
    hostSaving,    \* FilePreview's saving flag
    toasts,        \* user-visible notifications raised so far
    calls,         \* how often handleSave started a run, onSave and onClose were invoked
    onSaveArg,     \* the argument of the latest onSave call
    lastEncode,    \* what the platform encoder returned to the latest getCroppedImg, and how that call settled
    storage,       \* the storage objects and file documents that exist
    \* ---- one call of getCroppedImg, statement by statement ----
    rInput,        \* its arguments, the decoded image's size and what the platform will do
    rPc,           \* the statement the call has reached ("done" once it settled)
    rExit,         \* the path on which the call settled
    bufferCanvas,  \* the intermediate canvas
    outputCanvas,  \* the output canvas
    rEncoded,      \* the output canvas's size when toDataURL was called, and what it returned
    rResult,       \* how the call settled: NULL while pending, "rejected", or the data URL
    \* ---- the patient-details view (PatientDetails and the FilePreview it mounts) ----
    selectedGroup,    \* useState<string>('All')
    selectedFiles,    \* useState<Set<string>>(new Set())
    selectedImageUrl, \* useState<string | null>(null): PatientDetails mounts its editor
    currentFileId,    \* useState<string | null>(null)
    selectedFile,     \* useState<DentalFile | null>(null): PatientDetails mounts FilePreview
    isEditing,        \* FilePreview's useState(false): FilePreview mounts its editor
    files,            \* useState<DentalFile[]>([]) once loadFiles has filled it
    serverFiles,      \* what getPatientFiles would return now
    \* ---- ImageCropper (the profile-photo cropper) ----
    cropperCanvas, \* the size of the <canvas> (canvasRef.current)
    imageObj,      \* useState<HTMLImageElement | null>(null): the loaded image's size
    cropArea,      \* useState({ x: 0, y: 0, width: 200, height: 200 })
    isDragging,    \* useState(false)
    startPos,      \* useState({ x: 0, y: 0 })
    drawSource,    \* the source rectangle handleCropComplete last passed to drawImage
    \* ---- FileProvider: Firebase Storage, Firestore and the calls in progress ----
    objects,       \* Storage: path -> bytes of the main objects
    thumbnails,    \* Storage: the paths that have a thumbnail object
    docs,          \* Firestore collection 'files': document id -> document
    ops,           \* the calls of uploadFile, updateFileGroup and deleteFile, by call number
    uuid,          \* the next value of uuidv4(), 1, 2, ...
    \* ---- custom categories (useCategories and the Settings page) ----
    categoriesVariant,   \* "hook": useCategories, "settings", "settingsEarly": Settings
    categories,          \* useState<string[]>: categories / customCategories
    persistedCategories, \* the list field of the document settings/categories
    newCategory          \* the text of the input (the argument of the hook's addCategory)

loaderVars == <<hookVariant, url, mounted, imageUrl, loading, error, retryCount, tasks>>
editVars   == <<crop, zoom, rotation, flipH, flipV, croppedAreaPixels>>
editorVars == <<editorVariant, host, editorOpen, crop, zoom, rotation, flipH, flipV,
                croppedAreaPixels, edits, saving, runs, hostSaving, toasts, calls,
                onSaveArg, lastEncode, storage>>
renderVars == <<rInput, rPc, rExit, bufferCanvas, outputCanvas, rEncoded, rResult>>
viewVars == <<selectedGroup, selectedFiles, selectedImageUrl, currentFileId, selectedFile,
              isEditing, files, serverFiles>>
cropperVars == <<cropperCanvas, imageObj, cropArea, isDragging, startPos, drawSource>>
filesVars == <<objects, thumbnails, docs, ops, uuid>>
categoryVars == <<categoriesVariant, categories, persistedCategories, newCategory>>
vars == <<loaderVars, editorVars, renderVars, viewVars, cropperVars, filesVars, categoryVars>>

\* what a step of one component leaves alone
outsideLoader  == <<editorVars, renderVars, viewVars, cropperVars, filesVars, categoryVars>>
outsideEditor  == <<loaderVars, renderVars, viewVars, cropperVars, filesVars, categoryVars>>
outsideRender  == <<loaderVars, editorVars, viewVars, cropperVars, filesVars, categoryVars>>
outsideView    == <<loaderVars, editorVars, renderVars, cropperVars, filesVars, categoryVars>>
outsideCropper == <<loaderVars, editorVars, renderVars, viewVars, filesVars, categoryVars>>
outsideFiles   == <<loaderVars, editorVars, renderVars, viewVars, cropperVars, categoryVars>>
outsideCategories == <<loaderVars, editorVars, renderVars, viewVars, cropperVars, filesVars>>

NULL == "<null>"

(***************************************************************************)
(* Bounds of the model.                                                    *)
(***************************************************************************)
MaxAttempts == 5   \* load attempts followed within one retry chain
MaxTasks    == 2   \* loadImage chains alive at the same time
MaxEdits    == 3   \* control interactions followed in one edit session
MaxSaves    == 2   \* Save clicks that start a run, followed in one edit session
MaxRotation == 180 \* the rotate buttons are followed within +-MaxRotation degrees
MaxOps      == 3   \* calls of uploadFile, updateFileGroup and deleteFile followed
MaxCategories == 3 \* custom categories the list is followed up to

(***************************************************************************)
(* useImageLoader                                                          *)
(***************************************************************************)
maxRetries == 3

StorageHost == "firebasestorage.googleapis.com"

URLs == { "https://firebasestorage.googleapis.com/v0/b/x/o/a.jpg",
          "blob:local" }

\* String.prototype.includes
Includes(s, sub) ==
    \E i \in 1..(Len(s) - Len(sub) + 1) : SubSeq(s, i, i + Len(sub) - 1) = sub

\* the first await of loadImage: storage URLs are resolved to a fresh download
\* URL, every other URL goes straight to the Image element
FirstPhase(targetUrl) == IF Includes(targetUrl, StorageHost) THEN "url" ELSE "img"

\* a loadImage invocation of the closure that captured retryCount = rc,
\* the n-th attempt of its chain
NewTask(targetUrl, rc, n) ==
    [target |-> targetUrl, rc |-> rc, n |-> n, phase |-> FirstPhase(targetUrl),
     cur |-> FALSE, aborted |-> FALSE, delay |-> 0]

\* imageRef.current = img (only the "ts" variant keeps the ref)
WithImage(t, ts) ==
    { [s EXCEPT !.cur = FALSE] : s \in ts \ {t} }
        \cup { [t EXCEPT !.phase = "img", !.cur = (hookVariant = "ts")] }

\* loadImage(targetUrl) is called: it runs up to its first await
StartLoad(ts, targetUrl, rc, n) ==
    IF FirstPhase(targetUrl) = "url"
    THEN ts \cup { NewTask(targetUrl, rc, n) }
    ELSE WithImage(NewTask(targetUrl, rc, n), ts)

\* effect cleanup of the "ts" variant: imageRef.current.src = '' makes the
\* element that is still decoding fire its error event
Cleanup(ts) ==
    IF hookVariant = "ts"
    THEN { IF s.cur /\ s.phase = "img" THEN [s EXCEPT !.aborted = TRUE] ELSE s : s \in ts }
    ELSE ts

\* the retry test of the catch block, evaluated on the captured retryCount
\* (the hook that loads inside its effect, "effect", has no retry branch)
RetriesLeft(t) == hookVariant # "effect" /\ t.rc < maxRetries

\* the delay of the retry timer, computed from the captured retryCount:
\* Math.min(1000 * Math.pow(2, retryCount), 8000) in useImageLoader.ts,
\* 1000 * Math.pow(2, retryCount) in the older hook
RetryDelay(t) ==
    IF hookVariant = "ts" /\ 1000 * 2^t.rc > 8000 THEN 8000 ELSE 1000 * 2^t.rc

\* a state setter of an unmounted component is a no-op
Set(new, old) == IF mounted THEN new ELSE old

InitLoader ==
    /\ hookVariant \in {"ts", "legacy", "effect"}
    /\ url \in URLs
    /\ mounted = TRUE
    /\ imageUrl = NULL
    /\ loading = TRUE
    /\ error = NULL
    /\ retryCount = 0
    /\ tasks = StartLoad({}, url, 0, 1)         \* the mount effect called loadImage

\* await getDownloadURL(storageRef) settles
DownloadUrlResolved(t) ==
    /\ t \in tasks /\ t.phase = "url"
    /\ tasks' = WithImage(t, tasks)
    /\ UNCHANGED <<hookVariant, url, mounted, imageUrl, loading, error, retryCount>>
    /\ UNCHANGED outsideLoader

\* what the catch and finally blocks of loadImage do
LoadFailed(t) ==
    /\ error' = Set("Failed to load image", error)
    /\ IF RetriesLeft(t)
       THEN /\ t.n < MaxAttempts
            /\ retryCount' = Set(retryCount + 1, retryCount)
            /\ tasks' = (tasks \ {t}) \cup {[t EXCEPT !.phase = "timer", !.cur = FALSE, !.aborted = FALSE,
                                                     !.delay = RetryDelay(t)]}
            /\ loading' = IF hookVariant = "ts" THEN Set(FALSE, loading) ELSE loading
       ELSE /\ retryCount' = retryCount
            /\ tasks' = tasks \ {t}
            /\ loading' = Set(FALSE, loading)
    /\ imageUrl' = IF hookVariant = "effect" THEN Set(NULL, imageUrl) ELSE imageUrl
    /\ UNCHANGED <<hookVariant, url, mounted>>
    /\ UNCHANGED outsideLoader

DownloadUrlRejected(t) ==
    /\ t \in tasks /\ t.phase = "url"
    /\ LoadFailed(t)

ImageOnerror(t) ==
    /\ t \in tasks /\ t.phase = "img"
    /\ LoadFailed(t)

ImageOnload(t) ==
    /\ t \in tasks /\ t.phase = "img" /\ ~t.aborted
    /\ imageUrl' = Set(t.target, imageUrl)
    /\ error' = Set(NULL, error)
    /\ loading' = Set(FALSE, loading)
    /\ tasks' = tasks \ {t}
    /\ UNCHANGED <<hookVariant, url, mounted, retryCount>>
    /\ UNCHANGED outsideLoader

\* setTimeout(() => loadImage(targetUrl), delay): the same closure runs again
RetryTimerFires(t) ==
    /\ t \in tasks /\ t.phase = "timer"
    /\ tasks' = StartLoad(tasks \ {t}, t.target, t.rc, t.n + 1)
    /\ UNCHANGED <<hookVariant, url, mounted, imageUrl, loading, error, retryCount>>
    /\ UNCHANGED outsideLoader

\* retryLoading of the hooks that keep loadImage outside the effect: reset,
\* then loadImage again
RetryLoadingCallsLoadImage ==
    /\ retryCount' = 0
    /\ tasks' = StartLoad(tasks, url, retryCount, 1)
    /\ UNCHANGED imageUrl

\* retryLoading of the "effect" hook: setLoading(true); setError(null);
\* setImageUrl(null), and nothing else; the effect depends on [url] only
RetryLoadingResetsOnly ==
    /\ imageUrl' = NULL
    /\ UNCHANGED <<retryCount, tasks>>

retryLoading ==
    /\ mounted
    /\ Cardinality(tasks) < MaxTasks
    /\ loading' = TRUE
    /\ error' = NULL
    /\ IF hookVariant = "effect" THEN RetryLoadingResetsOnly ELSE RetryLoadingCallsLoadImage
    /\ UNCHANGED <<hookVariant, url, mounted>>
    /\ UNCHANGED outsideLoader

\* the url prop changes: cleanup of the old effect, then the effect runs again
UrlChanges(u) ==
    /\ mounted
    /\ u # url
    /\ Cardinality(tasks) < MaxTasks
    /\ url' = u
    /\ tasks' = StartLoad(Cleanup(tasks), u, retryCount, 1)
    /\ UNCHANGED <<hookVariant, mounted, imageUrl, loading, error, retryCount>>
    /\ UNCHANGED outsideLoader

Unmount ==
    /\ mounted
    /\ mounted' = FALSE
    /\ tasks' = Cleanup(tasks)
    /\ UNCHANGED <<hookVariant, url, imageUrl, loading, error, retryCount>>
    /\ UNCHANGED outsideLoader

NextLoader ==
    \/ \E t \in tasks : DownloadUrlResolved(t)
    \/ \E t \in tasks : DownloadUrlRejected(t)
    \/ \E t \in tasks : ImageOnload(t)
    \/ \E t \in tasks : ImageOnerror(t)
    \/ \E t \in tasks : RetryTimerFires(t)
    \/ retryLoading
    \/ \E u \in URLs : UrlChanges(u)
    \/ Unmount

(***************************************************************************)
(* The loader inside the fetch-based ImageEditor: loadImage with a         *)
(* retryCount ref.  It uses the loader's variables: url is the image prop, *)
(* imageUrl is imageData, retryCount is retryCount.current.                *)
(***************************************************************************)
\* an attempt of loadImage for the image its closure captured, the n-th of its chain
FetchTask(image, n) ==
    [target |-> image, rc |-> 0, n |-> n, phase |-> "fetch",
     cur |-> FALSE, aborted |-> FALSE, delay |-> 0]

InitInline ==
    /\ hookVariant = "inline"
    /\ url \in URLs
    /\ mounted = TRUE
    /\ imageUrl = NULL
    /\ loading = TRUE
    /\ error = NULL
    /\ retryCount = 0
    /\ tasks = { FetchTask(url, 1) }            \* the mount effect called loadImage

\* loadImage() up to its first await: setLoading(true); setError(null);
\* setImageData(null); fetch(image)
loadImage(ts, image, n) ==
    /\ loading' = TRUE
    /\ error' = NULL
    /\ imageUrl' = NULL
    /\ tasks' = ts \cup { FetchTask(image, n) }

\* fetch, blob and FileReader all succeed
FetchLoaded(t) ==
    /\ t \in tasks /\ t.phase = "fetch"
    /\ imageUrl' = t.target
    /\ loading' = FALSE
    /\ tasks' = tasks \ {t}
    /\ UNCHANGED <<hookVariant, url, mounted, error, retryCount>>
    /\ UNCHANGED outsideLoader

\* the catch block: a retry timer while retryCount.current < maxRetries,
\* the error otherwise
FetchFailed(t) ==
    /\ t \in tasks /\ t.phase = "fetch"
    /\ IF retryCount < maxRetries
       THEN /\ t.n < MaxAttempts
            /\ retryCount' = retryCount + 1
            /\ tasks' = (tasks \ {t}) \cup
                   { [t EXCEPT !.phase = "timer",
                               !.delay = IF 1000 * 2^retryCount > 8000 THEN 8000
                                         ELSE 1000 * 2^retryCount] }
            /\ UNCHANGED <<error, loading>>
       ELSE /\ error' = "Failed to load image after multiple attempts"
            /\ loading' = FALSE
            /\ tasks' = tasks \ {t}
            /\ UNCHANGED retryCount
    /\ UNCHANGED <<hookVariant, url, mounted, imageUrl>>
    /\ UNCHANGED outsideLoader

\* setTimeout(() => { loadImage(); }, delay)
FetchTimerFires(t) ==
    /\ t \in tasks /\ t.phase = "timer"
    /\ loadImage(tasks \ {t}, t.target, t.n + 1)
    /\ UNCHANGED <<hookVariant, url, mounted, retryCount>>
    /\ UNCHANGED outsideLoader

\* the Retry button of the error view
RetryClick ==
    /\ error # NULL
    /\ Cardinality(tasks) < MaxTasks
    /\ retryCount' = 0
    /\ loadImage(tasks, url, 1)
    /\ UNCHANGED <<hookVariant, url, mounted>>
    /\ UNCHANGED outsideLoader

\* the image prop changes: useEffect(() => { loadImage(); }, [image])
ImageChanges(u) ==
    /\ u # url
    /\ Cardinality(tasks) < MaxTasks
    /\ url' = u
    /\ loadImage(tasks, u, 1)
    /\ UNCHANGED <<hookVariant, mounted, retryCount>>
    /\ UNCHANGED outsideLoader

NextInline ==
    \/ \E t \in tasks : FetchLoaded(t)
    \/ \E t \in tasks : FetchFailed(t)
    \/ \E t \in tasks : FetchTimerFires(t)
    \/ RetryClick
    \/ \E u \in URLs : ImageChanges(u)

(***************************************************************************)
(* ImageEditor: the edit session                                           *)
(***************************************************************************)
NoArea == [null |-> TRUE]      \* croppedAreaPixels = null
NoRuns == [id \in {} |-> NULL]

InitStorage ==
    [objects |-> {"orig", "orig_thumb"}, docs |-> [d \in {"f1"} |-> "orig"]]

InitEditor ==
    /\ editorVariant \in {"full", "basic"}
    /\ host \in {"FilePreview", "PatientDetails"}
    /\ editorOpen = TRUE
    /\ crop = <<0, 0>>
    /\ zoom = 10
    /\ rotation = 0
    /\ flipH = FALSE
    /\ flipV = FALSE
    /\ croppedAreaPixels = NoArea
    /\ edits = 0
    /\ saving = FALSE
    /\ runs = NoRuns
    /\ hostSaving = FALSE
    /\ toasts = {}
    /\ calls = [started |-> 0, onSave |-> 0, onClose |-> 0]
    /\ onSaveArg = NULL
    /\ lastEncode = [dataUrl |-> NULL, rejected |-> FALSE]
    /\ storage = InitStorage


(***************************************************************************)
(* Interactive controls.  zoom is counted in tenths (10 = 1.0).            *)
(***************************************************************************)
ZoomMin == 10
ZoomMax == 30
ZoomStep == 1
RotateStep == 90

CropPoints     == { <<0, 0>>, <<12, -7>> }
Areas          == { [x |-> 0, y |-> 0, width |-> 400, height |-> 300],
                    [x |-> 10, y |-> 10, width |-> 0, height |-> 0] }
ZoomInputs     == { 10, 15, 30 }
RotationInputs == { -180, 90 }

Min(a, b) == IF a < b THEN a ELSE b
MaxUnclamped(a, b) == a
Max(a, b) == IF a > b THEN a ELSE b

EditState ==
    [crop |-> crop, zoom |-> zoom, rotation |-> rotation, flipH |-> flipH,
     flipV |-> flipV, croppedAreaPixels |-> croppedAreaPixels]

\* The Cropper, the sliders and the rotate/zoom/flip buttons carry no
\* disabled attribute: they are live whenever the editor is rendered.
ControlsLive == editorOpen

\* <button onClick={handleSave} disabled={saving}>
SaveButtonAlwaysEnabled == TRUE
SaveButtonEnabled == ~saving

\* the close button: disabled={saving} in the full editor, never disabled in the basic one
CloseButtonEnabled == IF editorVariant = "full" THEN ~saving ELSE TRUE

Interaction ==
    /\ ControlsLive
    /\ edits < MaxEdits
    /\ edits' = edits + 1
    /\ UNCHANGED <<outsideEditor, editorVariant, host, editorOpen, saving, runs, hostSaving,
                   toasts, calls, onSaveArg, lastEncode, storage>>

onCropChange(p) ==
    /\ Interaction
    /\ crop' = p
    /\ UNCHANGED <<zoom, rotation, flipH, flipV, croppedAreaPixels>>

onCropComplete(a) ==
    /\ Interaction
    /\ croppedAreaPixels' = a
    /\ UNCHANGED <<crop, zoom, rotation, flipH, flipV>>

\* Cropper.onZoomChange, and the zoom slider of the basic editor
onZoomChange(z) ==
    /\ Interaction
    /\ zoom' = z
    /\ UNCHANGED <<crop, rotation, flipH, flipV, croppedAreaPixels>>

RotationSlider(r) ==
    /\ Interaction
    /\ rotation' = r
    /\ UNCHANGED <<crop, zoom, flipH, flipV, croppedAreaPixels>>

RotateLeft ==
    /\ Interaction
    /\ editorVariant = "full"
    /\ rotation - RotateStep >= -MaxRotation
    /\ rotation' = rotation - RotateStep
    /\ UNCHANGED <<crop, zoom, flipH, flipV, croppedAreaPixels>>

RotateRight ==
    /\ Interaction
    /\ editorVariant = "full"
    /\ rotation + RotateStep <= MaxRotation
    /\ rotation' = rotation + RotateStep
    /\ UNCHANGED <<crop, zoom, flipH, flipV, croppedAreaPixels>>

ZoomIn ==
    /\ Interaction
    /\ editorVariant = "full"
    /\ zoom' = Min(zoom + ZoomStep, ZoomMax)
    /\ UNCHANGED <<crop, rotation, flipH, flipV, croppedAreaPixels>>

ZoomOut ==
    /\ Interaction
    /\ editorVariant = "full"
    /\ zoom' = Max(zoom - ZoomStep, ZoomMin)
    /\ UNCHANGED <<crop, rotation, flipH, flipV, croppedAreaPixels>>

FlipHorizontal ==
    /\ Interaction
    /\ editorVariant = "full"
    /\ flipH' = ~flipH
    /\ UNCHANGED <<crop, zoom, rotation, flipV, croppedAreaPixels>>

FlipVertical ==
    /\ Interaction
    /\ editorVariant = "full"
    /\ flipV' = ~flipV
    /\ UNCHANGED <<crop, zoom, rotation, flipH, croppedAreaPixels>>

(***************************************************************************)
(* getCroppedImg: what the platform does decides how the call settles.     *)
(***************************************************************************)
EncoderOutputs == { "", "data:,", "data:image/jpeg;base64,/9j/4AAQ",
                    "data:image/png;base64,iVBORw0KGgo" }

RenderFailures == { "imageError", "imageTimeout", "noBufferContext",
                    "noOutputContext", "toDataURLThrows" }

PlatformOutcomes ==
    { [fail |-> f, dataUrl |-> NULL] : f \in RenderFailures }
        \cup { [fail |-> "none", dataUrl |-> d] : d \in EncoderOutputs }

\* String.prototype.startsWith
StartsWith(s, prefix) ==
    Len(s) >= Len(prefix) /\ SubSeq(s, 1, Len(prefix)) = prefix

\* s.split(',')[1], "" standing for undefined and for the empty string
SplitComma1(s) ==
    LET commas == { i \in 1..Len(s) : SubSeq(s, i, i) = "," }
        first == CHOOSE i \in commas : \A j \in commas : i <= j
        after == { j \in commas : j > first }
        stop  == IF after = {} THEN Len(s) + 1
                 ELSE CHOOSE j \in after : \A k \in after : j <= k
    IN  IF commas = {} THEN "" ELSE SubSeq(s, first + 1, stop - 1)

\* outputCanvas.toDataURL('image/jpeg', 0.95): a canvas without pixels yields "data:,"
toDataURL(area, o) ==
    IF area.width = 0 \/ area.height = 0 THEN "data:," ELSE o.dataUrl

\* if (!base64Image || base64Image === 'data:,') throw
EncoderRejectsEmptyOnly(base64Image) == base64Image = ""
EncoderRejects(base64Image) == base64Image = "" \/ base64Image = "data:,"

getCroppedImg(area, o) ==
    IF o.fail # "none" \/ area = NoArea      \* reading pixelCrop.width of null throws
    THEN [rejected |-> TRUE, value |-> NULL, encoded |-> NULL]
    ELSE LET base64Image == toDataURL(area, o)
         IN  IF EncoderRejects(base64Image)
             THEN [rejected |-> TRUE, value |-> NULL, encoded |-> base64Image]
             ELSE [rejected |-> FALSE, value |-> base64Image, encoded |-> base64Image]

(***************************************************************************)
(* The patient-details view: the file grid, the editor PatientDetails      *)
(* mounts for a 2D file, the FilePreview it mounts for a 3D file, and the  *)
(* editor FilePreview mounts.  Editor and preview are `fixed inset-0 z-50` *)
(* overlays.                                                               *)
(***************************************************************************)
\* the patient's files at the start, as loadFiles sorted them (newest first)
PatientFiles ==
    << [id |-> "p1", type |-> "2D", group |-> "Before", url |-> "u1"],
       [id |-> "p2", type |-> "3D", group |-> "Before", url |-> "u2"],
       [id |-> "p3", type |-> "2D", group |-> "After",  url |-> "u3"],
       [id |-> "p4", type |-> "3D", group |-> "After",  url |-> "u4"] >>

Groups == {"All", "Before", "After"}

IndexSet(seq) == 1..Len(seq)

\* files.filter(file => selectedGroup === 'All' ? true : file.group === selectedGroup)
filteredFiles ==
    SelectSeq(files, LAMBDA f : selectedGroup = "All" \/ f.group = selectedGroup)

\* allFiles.findIndex(f => f.id === file.id), 0 standing for -1
FindIndex(seq, id) ==
    IF \E i \in IndexSet(seq) : seq[i].id = id
    THEN CHOOSE i \in IndexSet(seq) : seq[i].id = id /\ \A j \in 1..(i - 1) : seq[j].id # id
    ELSE 0

NoFile == [id |-> NULL, type |-> NULL, group |-> NULL, url |-> NULL]

InitView ==
    /\ selectedGroup = "All"
    /\ selectedFiles = {}
    /\ selectedImageUrl = NULL
    /\ currentFileId = NULL
    /\ selectedFile = NoFile
    /\ isEditing = FALSE
    /\ files = PatientFiles
    /\ serverFiles = PatientFiles

ViewIdle == InitView

PatientEditorOpen == selectedImageUrl # NULL
PreviewOpen       == selectedFile # NoFile
PreviewEditorOpen == PreviewOpen /\ isEditing

\* the grid and the toolbar lie under any open overlay and take no click then
GridAlwaysReachable == TRUE
GridReachable == ~PatientEditorOpen /\ ~PreviewOpen

\* <select value={selectedGroup} onChange=...>
setSelectedGroup(g) ==
    /\ GridReachable
    /\ selectedGroup' = g
    /\ UNCHANGED <<selectedFiles, selectedImageUrl, currentFileId, selectedFile, isEditing,
                   files, serverFiles, outsideView>>

toggleFileSelection(i) ==
    /\ GridReachable
    /\ i \in IndexSet(filteredFiles)
    /\ LET fileId == filteredFiles[i].id
       IN  selectedFiles' = IF fileId \in selectedFiles THEN selectedFiles \ {fileId}
                            ELSE selectedFiles \cup {fileId}
    /\ UNCHANGED <<selectedGroup, selectedImageUrl, currentFileId, selectedFile, isEditing,
                   files, serverFiles, outsideView>>

handleImageClick(i) ==
    /\ GridReachable
    /\ i \in IndexSet(filteredFiles)
    /\ LET file == filteredFiles[i]
       IN  IF file.type = "2D"
           THEN /\ selectedImageUrl' = file.url
                /\ currentFileId' = file.id
                /\ UNCHANGED selectedFile
           ELSE /\ selectedFile' = file
                /\ UNCHANGED <<selectedImageUrl, currentFileId>>
    /\ UNCHANGED <<selectedGroup, selectedFiles, isEditing, files, serverFiles, outsideView>>

\* the editor's onClose, and the finally block of handleSaveEdit
PatientEditorCloses ==
    /\ PatientEditorOpen
    /\ selectedImageUrl' = NULL
    /\ currentFileId' = NULL
    /\ UNCHANGED <<selectedGroup, selectedFiles, selectedFile, isEditing, files, serverFiles, outsideView>>

\* FilePreview's onClose: the preview unmounts and its state is gone
PreviewCloses ==
    /\ PreviewOpen
    /\ ~isEditing
    /\ selectedFile' = NoFile
    /\ isEditing' = FALSE
    /\ UNCHANGED <<selectedGroup, selectedFiles, selectedImageUrl, currentFileId, files, serverFiles, outsideView>>

\* FilePreview.handleTouchEnd: diff > 0 swipes to the next file, diff < 0 to the previous
handleTouchEnd(diffPositive) ==
    /\ PreviewOpen
    /\ LET allFiles == filteredFiles
           currentIndex == FindIndex(allFiles, selectedFile.id)
       IN  IF diffPositive /\ currentIndex < Len(allFiles)
           THEN selectedFile' = allFiles[currentIndex + 1]
           ELSE IF ~diffPositive /\ currentIndex > 1
                THEN selectedFile' = allFiles[currentIndex - 1]
                ELSE UNCHANGED selectedFile
    /\ UNCHANGED <<selectedGroup, selectedFiles, selectedImageUrl, currentFileId, isEditing,
                   files, serverFiles, outsideView>>

\* the pencil button: file.type === '2D' && !saving
EditClick ==
    /\ PreviewOpen
    /\ ~isEditing
    /\ selectedFile.type = "2D"
    /\ isEditing' = TRUE
    /\ UNCHANGED <<selectedGroup, selectedFiles, selectedImageUrl, currentFileId, selectedFile,
                   files, serverFiles, outsideView>>

\* onClose={() => setIsEditing(false)}, and setIsEditing(false) after a successful save
PreviewEditorCloses ==
    /\ PreviewEditorOpen
    /\ isEditing' = FALSE
    /\ UNCHANGED <<selectedGroup, selectedFiles, selectedImageUrl, currentFileId, selectedFile,
                   files, serverFiles, outsideView>>

\* the ids the replacement uploads of handleSaveEdit get
FreshIds == << "n1", "n2" >>

Ids(seq) == { seq[i].id : i \in IndexSet(seq) }

Without(seq, id) == SelectSeq(seq, LAMBDA f : f.id # id)

\* handleSaveEdit, called by the editor with the edited image: deleteFile,
\* uploadFile (a new document, so a new id), loadFiles; the finally block
\* closes the editor.  outcome names the first await that rejects.
SaveEditOutcomes == { "saved", "deleteFileRejects", "uploadFileRejects" }

handleSaveEdit(outcome) ==
    /\ PatientEditorOpen
    /\ LET at == FindIndex(files, currentFileId)
           used == Ids(serverFiles) \cup Ids(files)
           free == { k \in IndexSet(FreshIds) : FreshIds[k] \notin used }
       IN  IF at = 0
           THEN outcome = "saved" /\ UNCHANGED <<files, serverFiles>>
           ELSE CASE outcome = "deleteFileRejects" -> UNCHANGED <<files, serverFiles>>
                  [] outcome = "uploadFileRejects" ->
                        /\ serverFiles' = Without(serverFiles, currentFileId)
                        /\ UNCHANGED files
                  [] outcome = "saved" ->
                        /\ free # {}
                        /\ LET k == CHOOSE k \in free : \A m \in free : k <= m
                               replacement == [files[at] EXCEPT !.id = FreshIds[k]]
                           IN  /\ serverFiles' =
                                     <<replacement>> \o Without(serverFiles, currentFileId)
                               /\ files' = serverFiles'
    /\ selectedImageUrl' = NULL
    /\ currentFileId' = NULL
    /\ UNCHANGED <<selectedGroup, selectedFiles, selectedFile, isEditing, outsideView>>

\* handleBulkCategoryUpdate(newGroup): updateFileGroup for every selected id,
\* then loadFiles and setSelectedFiles(new Set()); nothing of it after a rejection
handleBulkCategoryUpdate(newGroup, ok) ==
    /\ GridReachable
    /\ selectedFiles # {}
    /\ IF ok /\ selectedFiles \subseteq Ids(serverFiles)
       THEN /\ serverFiles' = [i \in IndexSet(serverFiles) |->
                                  IF serverFiles[i].id \in selectedFiles
                                  THEN [serverFiles[i] EXCEPT !.group = newGroup]
                                  ELSE serverFiles[i]]
            /\ files' = serverFiles'
            /\ selectedFiles' = {}
       ELSE UNCHANGED <<files, serverFiles, selectedFiles>>
    /\ UNCHANGED <<selectedGroup, selectedImageUrl, currentFileId, selectedFile, isEditing,
                   outsideView>>

\* the "Clear selection" button: setSelectedFiles(new Set())
ClearSelection ==
    /\ GridReachable
    /\ selectedFiles # {}
    /\ selectedFiles' = {}
    /\ UNCHANGED <<selectedGroup, selectedImageUrl, currentFileId, selectedFile, isEditing,
                   files, serverFiles, outsideView>>

\* pull to refresh: loadFiles
Reload ==
    /\ GridReachable
    /\ files' = serverFiles
    /\ UNCHANGED <<selectedGroup, selectedFiles, selectedImageUrl, currentFileId, selectedFile,
                   isEditing, serverFiles, outsideView>>

NextView ==
    \/ \E g \in Groups : setSelectedGroup(g)
    \/ \E i \in IndexSet(files) : toggleFileSelection(i)
    \/ \E i \in IndexSet(files) : handleImageClick(i)
    \/ PatientEditorCloses
    \/ PreviewCloses
    \/ \E d \in BOOLEAN : handleTouchEnd(d)
    \/ EditClick
    \/ PreviewEditorCloses
    \/ \E outcome \in SaveEditOutcomes : handleSaveEdit(outcome)
    \/ \E g \in Groups \ {"All"}, ok \in BOOLEAN : handleBulkCategoryUpdate(g, ok)
    \/ ClearSelection
    \/ Reload

(***************************************************************************)
(* ImageCropper: a crop square dragged over an image that is drawn         *)
(* letterboxed (scaled to fit, centred) on a canvas.  Coordinates are      *)
(* canvas pixels; scale is the fraction ScaleNum / ScaleDen.               *)
(***************************************************************************)
CanvasSizes   == { [width |-> 600, height |-> 400], [width |-> 340, height |-> 400] }
CropperImages == { [width |-> 400, height |-> 300], [width |-> 800, height |-> 800],
                   [width |-> 100, height |-> 400] }
PointerXs     == { 0, 300, 599 }
PointerYs     == { 0, 200, 399 }
GrabOffsets   == { 0, 100, 250 }
SizeInputs    == { 100, 200, 300 }

NoImage      == [width |-> 0, height |-> 0]
NoDrawSource == [called |-> FALSE, x |-> 0, y |-> 0, width |-> 0, height |-> 0, unit |-> 1]

\* the parent unmounts the cropper when it receives the result
\* (setIsCropping(false) in its handleCropComplete)
CropperMounted == ~drawSource.called

InitCropper ==
    /\ cropperCanvas \in CanvasSizes
    /\ imageObj = NoImage
    /\ cropArea = [x |-> 0, y |-> 0, width |-> 200, height |-> 200]
    /\ isDragging = FALSE
    /\ startPos = [x |-> 0, y |-> 0]
    /\ drawSource = NoDrawSource

CropperIdle == InitCropper /\ cropperCanvas = [width |-> 600, height |-> 400]

\* Math.min(canvas.width / img.width, canvas.height / img.height) = ScaleNum / ScaleDen
WidthBound == cropperCanvas.width * imageObj.height <= cropperCanvas.height * imageObj.width
ScaleNum == IF WidthBound THEN cropperCanvas.width ELSE cropperCanvas.height
ScaleDen == IF WidthBound THEN imageObj.width ELSE imageObj.height

\* Math.max(0, Math.min(v, limit))
ClampNone(v, limit) == v
Clamp(v, limit) == IF v > limit THEN (IF limit < 0 THEN 0 ELSE limit)
                   ELSE IF v < 0 THEN 0 ELSE v

\* img.onload: the image is kept and the crop area centred on the canvas
ImageLoaded(img) ==
    /\ CropperMounted
    /\ imageObj = NoImage
    /\ imageObj' = img
    /\ cropArea' = [x |-> (cropperCanvas.width - 200) \div 2,
                    y |-> (cropperCanvas.height - 200) \div 2,
                    width |-> 200, height |-> 200]
    /\ UNCHANGED <<cropperCanvas, isDragging, startPos, drawSource, outsideCropper>>

\* the pointer goes down at offset (dx, dy) from the crop area's corner; it
\* starts a drag when that point is inside the crop area
handleMouseDown(dx, dy) ==
    LET x == cropArea.x + dx
        y == cropArea.y + dy
    IN  /\ CropperMounted
        /\ ~isDragging
        /\ IF /\ x >= cropArea.x /\ x <= cropArea.x + cropArea.width
              /\ y >= cropArea.y /\ y <= cropArea.y + cropArea.height
           THEN /\ isDragging' = TRUE
                /\ startPos' = [x |-> x - cropArea.x, y |-> y - cropArea.y]
           ELSE UNCHANGED <<isDragging, startPos>>
        /\ UNCHANGED <<cropperCanvas, imageObj, cropArea, drawSource, outsideCropper>>

handleMouseMove(x, y) ==
    /\ CropperMounted
    /\ isDragging
    /\ cropArea' = [cropArea EXCEPT
                      !.x = Clamp(x - startPos.x, cropperCanvas.width - cropArea.width),
                      !.y = Clamp(y - startPos.y, cropperCanvas.height - cropArea.height)]
    /\ UNCHANGED <<cropperCanvas, imageObj, isDragging, startPos, drawSource, outsideCropper>>

handleMouseUp ==
    /\ CropperMounted
    /\ isDragging
    /\ isDragging' = FALSE
    /\ UNCHANGED <<cropperCanvas, imageObj, cropArea, startPos, drawSource, outsideCropper>>

\* the size slider (part_008): between 100 and the smaller canvas side minus 40
changeCropSize(newSize) ==
    LET maxSize == Min(cropperCanvas.width, cropperCanvas.height) - 40
        size == Min(Max(100, newSize), maxSize)
        newX == cropArea.x + (cropArea.width - size) \div 2
        newY == cropArea.y + (cropArea.height - size) \div 2
    IN  /\ CropperMounted
        /\ cropArea' = [x |-> Clamp(newX, cropperCanvas.width - size),
                        y |-> Clamp(newY, cropperCanvas.height - size),
                        width |-> size, height |-> size]
        /\ UNCHANGED <<cropperCanvas, imageObj, isDragging, startPos, drawSource,
                       outsideCropper>>

\* the source rectangle of drawImage, every number in units of 1 / (2 * ScaleNum) pixel:
\*   sourceX = (cropArea.x - (canvas.width - image.width * scale) / 2) / scale
\*   sourceWidth = cropArea.width / scale
handleCropComplete ==
    /\ CropperMounted
    /\ imageObj # NoImage
    /\ drawSource' =
          [called |-> TRUE,
           x |-> (2 * cropArea.x - cropperCanvas.width) * ScaleDen + imageObj.width * ScaleNum,
           y |-> (2 * cropArea.y - cropperCanvas.height) * ScaleDen + imageObj.height * ScaleNum,
           width  |-> 2 * cropArea.width * ScaleDen,
           height |-> 2 * cropArea.height * ScaleDen,
           unit |-> 2 * ScaleNum]
    /\ UNCHANGED <<cropperCanvas, imageObj, cropArea, isDragging, startPos, outsideCropper>>

NextCropper ==
    \/ \E img \in CropperImages : ImageLoaded(img)
    \/ \E dx \in GrabOffsets, dy \in GrabOffsets : handleMouseDown(dx, dy)
    \/ \E x \in PointerXs, y \in PointerYs : handleMouseMove(x, y)
    \/ handleMouseUp
    \/ \E n \in SizeInputs : changeCropSize(n)
    \/ handleCropComplete

(***************************************************************************)
(* FileProvider: uploadFile, updateFileGroup and deleteFile against        *)
(* Firebase Storage and Firestore.  One file (document 0, object at path   *)
(* 0) exists at the start; uuidv4() makes every new name and path fresh.   *)
(***************************************************************************)
FileTypes == { "2D", "3D" }

OriginalBytes == "original bytes"
UploadedBytes == "uploaded bytes"
ErrorBody     == "body of a non-OK response"

InitFiles ==
    /\ \E type \in FileTypes, hasThumbnail \in BOOLEAN :
          /\ docs = (0 :> [path |-> 0, type |-> type,
                           thumbnailUrl |-> (type = "2D" /\ hasThumbnail)])
          /\ thumbnails = IF type = "2D" /\ hasThumbnail THEN {0} ELSE {}
    /\ objects = (0 :> OriginalBytes)
    /\ ops = << >>
    /\ uuid = 1

FilesIdle ==
    /\ docs = (0 :> [path |-> 0, type |-> "2D", thumbnailUrl |-> TRUE])
    /\ thumbnails = {0}
    /\ objects = (0 :> OriginalBytes)
    /\ ops = << >>
    /\ uuid = 1

\* a call: kind and position, its arguments and its local variables
NewOp(kind, pc, path, type) ==
    [kind |-> kind, pc |-> pc, path |-> path, type |-> type, hasThumbnail |-> FALSE,
     newPath |-> 0, blob |-> NULL, thumbnailUrl |-> FALSE,
     mainDeleted |-> FALSE, docDeleted |-> FALSE, docCreated |-> FALSE]

At(i, kind, pc) == i \in DOMAIN ops /\ ops[i].kind = kind /\ ops[i].pc = pc

\* an await rejects: the catch block shows a toast and rethrows
Throws(i) == ops' = [ops EXCEPT ![i].pc = "failed"]

RemoveKey(f, k) == [x \in DOMAIN f \ {k} |-> f[x]]

\* ---- updateFileGroup(fileId, newGroup) for document 0 ----
StartUpdateFileGroup ==
    /\ Len(ops) < MaxOps
    /\ ops' = Append(ops, NewOp("update", "getDoc", 0, "2D"))
    /\ UNCHANGED <<objects, thumbnails, docs, uuid, outsideFiles>>

\* getDoc of the file and of the patient; generateFileName and the new path
UpdGetDoc(i, ok) ==
    /\ At(i, "update", "getDoc")
    /\ IF ok /\ 0 \in DOMAIN docs
       THEN /\ ops' = [ops EXCEPT ![i].pc = "fetch", ![i].path = docs[0].path,
                                  ![i].type = docs[0].type,
                                  ![i].hasThumbnail = docs[0].thumbnailUrl,
                                  ![i].newPath = uuid]
            /\ uuid' = uuid + 1
       ELSE Throws(i) /\ UNCHANGED uuid
    /\ UNCHANGED <<objects, thumbnails, docs, outsideFiles>>

\* what fetch(fileData.url) can deliver: the bytes (response OK), the body of
\* an error response (response.ok is false, the promise still resolves), or a
\* rejection; a deleted object is answered with an error response
FetchOutcomes(path) ==
    IF path \in DOMAIN objects THEN { "ok", "notOk", "rejects" } ELSE { "notOk", "rejects" }

\* the blob taken only from an OK response
BlobOfOkOnly(path, outcome) == objects[path]
\* (await fetch(fileData.url)).blob(): response.ok is not tested
BlobOf(path, outcome) == IF outcome = "ok" THEN objects[path] ELSE ErrorBody

UpdFetch(i, outcome) ==
    /\ At(i, "update", "fetch")
    /\ outcome \in FetchOutcomes(ops[i].path)
    /\ IF outcome = "rejects"
       THEN Throws(i)
       ELSE ops' = [ops EXCEPT ![i].pc = "upload", ![i].blob = BlobOf(ops[i].path, outcome)]
    /\ UNCHANGED <<objects, thumbnails, docs, uuid, outsideFiles>>

\* uploadBytes(newStorageRef, oldFileBlob) and getDownloadURL(newStorageRef)
UpdUpload(i, ok) ==
    /\ At(i, "update", "upload")
    /\ IF ok
       THEN /\ objects' = (ops[i].newPath :> ops[i].blob) @@ objects
            /\ ops' = [ops EXCEPT ![i].pc = "thumbnail"]
       ELSE Throws(i) /\ UNCHANGED objects
    /\ UNCHANGED <<thumbnails, docs, uuid, outsideFiles>>

\* the thumbnail is copied when fileData.type === '2D' && fileData.thumbnailUrl
UpdThumbnail(i, ok) ==
    /\ At(i, "update", "thumbnail")
    /\ IF ops[i].type = "2D" /\ ops[i].hasThumbnail
       THEN IF ok
            THEN /\ thumbnails' = thumbnails \cup {ops[i].newPath}
                 /\ ops' = [ops EXCEPT ![i].pc = "updateDoc"]
            ELSE Throws(i) /\ UNCHANGED thumbnails
       ELSE /\ ops' = [ops EXCEPT ![i].pc = "updateDoc"]
            /\ UNCHANGED thumbnails
    /\ UNCHANGED <<objects, docs, uuid, outsideFiles>>

\* the path updateDoc writes
KeepsOldPath(oldPath, newPath) == oldPath
UpdatedPath(oldPath, newPath) == newPath

\* updateDoc(doc(db, 'files', fileId), { path: newStoragePath, ... }); it
\* rejects when the document does not exist
UpdUpdateDoc(i, ok) ==
    /\ At(i, "update", "updateDoc")
    /\ IF ok /\ 0 \in DOMAIN docs
       THEN /\ docs' = [docs EXCEPT ![0].path = UpdatedPath(ops[i].path, ops[i].newPath)]
            /\ ops' = [ops EXCEPT ![i].pc = "deleteOld"]
       ELSE Throws(i) /\ UNCHANGED docs
    /\ UNCHANGED <<objects, thumbnails, uuid, outsideFiles>>

\* deleteObject(oldStorageRef); it rejects when the object does not exist
UpdDeleteOld(i, ok) ==
    /\ At(i, "update", "deleteOld")
    /\ IF ok /\ ops[i].path \in DOMAIN objects
       THEN /\ objects' = RemoveKey(objects, ops[i].path)
            /\ ops' = [ops EXCEPT ![i].pc = "deleteOldThumbnail", ![i].mainDeleted = TRUE]
       ELSE Throws(i) /\ UNCHANGED objects
    /\ UNCHANGED <<thumbnails, docs, uuid, outsideFiles>>

UpdDeleteOldThumbnail(i, ok) ==
    /\ At(i, "update", "deleteOldThumbnail")
    /\ IF ops[i].type = "2D" /\ ops[i].hasThumbnail
       THEN IF ok /\ ops[i].path \in thumbnails
            THEN /\ thumbnails' = thumbnails \ {ops[i].path}
                 /\ ops' = [ops EXCEPT ![i].pc = "done"]
            ELSE Throws(i) /\ UNCHANGED thumbnails
       ELSE /\ ops' = [ops EXCEPT ![i].pc = "done"]
            /\ UNCHANGED thumbnails
    /\ UNCHANGED <<objects, docs, uuid, outsideFiles>>

\* ---- deleteFile(fileId, storagePath) for document 0 ----
\* the caller passes file.path of its loaded list: the document's path now,
\* or the path the file had when the list was loaded
StartDeleteFile(path) ==
    /\ Len(ops) < MaxOps
    /\ path = 0 \/ (0 \in DOMAIN docs /\ path = docs[0].path)
    /\ ops' = Append(ops, NewOp("delete", "deleteMain", path,
                                IF 0 \in DOMAIN docs THEN docs[0].type ELSE "2D"))
    /\ UNCHANGED <<objects, thumbnails, docs, uuid, outsideFiles>>

DelDeleteMain(i, ok) ==
    /\ At(i, "delete", "deleteMain")
    /\ IF ok /\ ops[i].path \in DOMAIN objects
       THEN /\ objects' = RemoveKey(objects, ops[i].path)
            /\ ops' = [ops EXCEPT ![i].pc = "deleteThumbnail", ![i].mainDeleted = TRUE]
       ELSE Throws(i) /\ UNCHANGED objects
    /\ UNCHANGED <<thumbnails, docs, uuid, outsideFiles>>

\* if (storagePath.includes('/images/')) try { deleteObject(thumbnailRef) } catch { log }
DelDeleteThumbnail(i, ok) ==
    /\ At(i, "delete", "deleteThumbnail")
    /\ thumbnails' = IF ops[i].type = "2D" /\ ok THEN thumbnails \ {ops[i].path} ELSE thumbnails
    /\ ops' = [ops EXCEPT ![i].pc = "deleteDoc"]
    /\ UNCHANGED <<objects, docs, uuid, outsideFiles>>

DelDeleteDoc(i, ok) ==
    /\ At(i, "delete", "deleteDoc")
    /\ IF ok
       THEN /\ docs' = RemoveKey(docs, 0)
            /\ ops' = [ops EXCEPT ![i].pc = "done", ![i].docDeleted = TRUE]
       ELSE Throws(i) /\ UNCHANGED docs
    /\ UNCHANGED <<objects, thumbnails, uuid, outsideFiles>>

\* ---- uploadFile(file, patientId, type, group) ----
\* getDoc of the patient, generateFileName, uuidv4()
StartUploadFile(type, ok) ==
    /\ Len(ops) < MaxOps
    /\ IF ok
       THEN ops' = Append(ops, [NewOp("upload", "thumbnail", uuid, type)
                                    EXCEPT !.newPath = uuid])
       ELSE ops' = Append(ops, NewOp("upload", "failed", uuid, type))
    /\ uuid' = uuid + 1
    /\ UNCHANGED <<objects, thumbnails, docs, outsideFiles>>

\* the types that get a thumbnail
ThumbnailForAll(type) == TRUE
ThumbnailFor(type) == type = "2D"

\* try { generateThumbnail; uploadBytes; getDownloadURL } catch { log }: the
\* thumbnail can fail before or after its object was stored
ThumbnailOutcomes == { "stored", "storedNoUrl", "failed" }

UplThumbnail(i, outcome) ==
    /\ At(i, "upload", "thumbnail")
    /\ IF ThumbnailFor(ops[i].type)
       THEN /\ thumbnails' = IF outcome = "failed" THEN thumbnails
                             ELSE thumbnails \cup {ops[i].newPath}
            /\ ops' = [ops EXCEPT ![i].pc = "uploadMain",
                                  ![i].thumbnailUrl = (outcome = "stored")]
       ELSE /\ outcome = "failed"
            /\ ops' = [ops EXCEPT ![i].pc = "uploadMain"]
            /\ UNCHANGED thumbnails
    /\ UNCHANGED <<objects, docs, uuid, outsideFiles>>

\* uploadBytes(storageRef, file, metadata)
UplUploadMain(i, ok) ==
    /\ At(i, "upload", "uploadMain")
    /\ IF ok
       THEN /\ objects' = (ops[i].newPath :> UploadedBytes) @@ objects
            /\ ops' = [ops EXCEPT ![i].pc = "getUrl"]
       ELSE Throws(i) /\ UNCHANGED objects
    /\ UNCHANGED <<thumbnails, docs, uuid, outsideFiles>>

\* getDownloadURL(uploadResult.ref)
UplGetUrl(i, ok) ==
    /\ At(i, "upload", "getUrl")
    /\ IF ok THEN ops' = [ops EXCEPT ![i].pc = "addDoc"] ELSE Throws(i)
    /\ UNCHANGED <<objects, thumbnails, docs, uuid, outsideFiles>>

\* addDoc(collection(db, 'files'), docData): a new document, here under the
\* number of the upload's path
UplAddDoc(i, ok) ==
    /\ At(i, "upload", "addDoc")
    /\ IF ok
       THEN /\ docs' = (ops[i].newPath :>
                           [path |-> ops[i].newPath, type |-> ops[i].type,
                            thumbnailUrl |-> (ops[i].type = "2D" /\ ops[i].thumbnailUrl)])
                       @@ docs
            /\ ops' = [ops EXCEPT ![i].pc = "done", ![i].docCreated = TRUE]
       ELSE Throws(i) /\ UNCHANGED docs
    /\ UNCHANGED <<objects, thumbnails, uuid, outsideFiles>>

\* category changes and deletions of the file
NextFiles ==
    \/ StartUpdateFileGroup
    \/ \E path \in 0..MaxOps : StartDeleteFile(path)
    \/ \E i \in DOMAIN ops, ok \in BOOLEAN : UpdGetDoc(i, ok)
    \/ \E i \in DOMAIN ops, outcome \in { "ok", "notOk", "rejects" } : UpdFetch(i, outcome)
    \/ \E i \in DOMAIN ops, ok \in BOOLEAN : UpdUpload(i, ok)
    \/ \E i \in DOMAIN ops, ok \in BOOLEAN : UpdThumbnail(i, ok)
    \/ \E i \in DOMAIN ops, ok \in BOOLEAN : UpdUpdateDoc(i, ok)
    \/ \E i \in DOMAIN ops, ok \in BOOLEAN : UpdDeleteOld(i, ok)
    \/ \E i \in DOMAIN ops, ok \in BOOLEAN : UpdDeleteOldThumbnail(i, ok)
    \/ \E i \in DOMAIN ops, ok \in BOOLEAN : DelDeleteMain(i, ok)
    \/ \E i \in DOMAIN ops, ok \in BOOLEAN : DelDeleteThumbnail(i, ok)
    \/ \E i \in DOMAIN ops, ok \in BOOLEAN : DelDeleteDoc(i, ok)

\* uploads
NextUploads ==
    \/ \E type \in FileTypes, ok \in BOOLEAN : StartUploadFile(type, ok)
    \/ \E i \in DOMAIN ops, outcome \in ThumbnailOutcomes : UplThumbnail(i, outcome)
    \/ \E i \in DOMAIN ops, ok \in BOOLEAN : UplUploadMain(i, ok)
    \/ \E i \in DOMAIN ops, ok \in BOOLEAN : UplGetUrl(i, ok)
    \/ \E i \in DOMAIN ops, ok \in BOOLEAN : UplAddDoc(i, ok)

(***************************************************************************)
(* Custom categories: addCategory and removeCategory of useCategories and  *)
(* of the Settings page, one call at a time.                               *)
(***************************************************************************)
CategoryInputs == { "", "  ", "Ortho", " Ortho ", "Implant", "Implant ", "Scan" }

\* String.prototype.trim, for blanks
RECURSIVE TrimStart(_)
TrimStart(str) ==
    IF Len(str) > 0 /\ SubSeq(str, 1, 1) = " " THEN TrimStart(SubSeq(str, 2, Len(str)))
    ELSE str

RECURSIVE TrimEnd(_)
TrimEnd(str) ==
    IF Len(str) > 0 /\ SubSeq(str, Len(str), Len(str)) = " "
    THEN TrimEnd(SubSeq(str, 1, Len(str) - 1))
    ELSE str

Trim(str) == TrimEnd(TrimStart(str))

\* Array.prototype.includes
ListIncludes(list, item) == \E i \in 1..Len(list) : list[i] = item

InitCategories ==
    /\ categoriesVariant \in { "hook", "settings", "settingsEarly" }
    /\ categories = << >>
    /\ persistedCategories = << >>
    /\ newCategory = ""

CategoriesIdle == InitCategories /\ categoriesVariant = "hook"

\* the user types into the input (the caller chooses the hook's argument)
setNewCategory(text) ==
    /\ newCategory' = text
    /\ UNCHANGED <<categoriesVariant, categories, persistedCategories, outsideCategories>>

\* the duplicate test of addCategory; the early Settings page has none
RejectsDuplicate(list, category) ==
    categoriesVariant # "settingsEarly" /\ ListIncludes(list, category)

\* addCategory: trim, reject an empty or known name, setDoc, then set the state
addCategory(ok) ==
    LET category == Trim(newCategory)
    IN  /\ Len(categories) < MaxCategories
        /\ IF category = "" \/ RejectsDuplicate(categories, category) \/ ~ok
           THEN UNCHANGED <<categories, persistedCategories, newCategory>>
           ELSE /\ persistedCategories' = Append(categories, category)
                /\ categories' = Append(categories, category)
                /\ newCategory' = IF categoriesVariant = "hook" THEN newCategory ELSE ""
        /\ UNCHANGED <<categoriesVariant, outsideCategories>>

\* removeCategory: filter, setDoc, then set the state
removeCategory(categoryToRemove, ok) ==
    /\ ListIncludes(categories, categoryToRemove)
    /\ IF ok
       THEN /\ persistedCategories' = SelectSeq(categories, LAMBDA cat : cat # categoryToRemove)
            /\ categories' = persistedCategories'
       ELSE UNCHANGED <<categories, persistedCategories>>
    /\ UNCHANGED <<categoriesVariant, newCategory, outsideCategories>>

NextCategories ==
    \/ \E text \in CategoryInputs : setNewCategory(text)
    \/ \E ok \in BOOLEAN : addCategory(ok)
    \/ \E c \in CategoryInputs, ok \in BOOLEAN : removeCategory(c, ok)

(***************************************************************************)
(* getRotatedSize in IEEE-754 double arithmetic.                           *)
(* |Math.cos| and |Math.sin| of (rotation * Math.PI) / 180 are tabulated   *)
(* as the doubles the platform returns: `fix` is the value in units of     *)
(* 1/Scale (rounded down), `tiny` a residue in units of 2^-70 where the    *)
(* double is not 0 but about 1e-16 (Math.sin(Math.PI) is                   *)
(* 1.2246467991473532e-16, not 0), `exact` says that fix is the value.     *)
(***************************************************************************)
Scale == 100000
TinyPerOne == 262144      \* 2^18: the ulp of a double in [1, 2) is 2^-52 = 2^18 * 2^-70

Angles == { 0, 30, 45, 90, 180, 270, 360, -90, -180 }

Trig(absCos, absSin) == [cos |-> absCos, sin |-> absSin]
One      == [fix |-> Scale, tiny |-> 0, exact |-> TRUE]
Zero     == [fix |-> 0, tiny |-> 0, exact |-> TRUE]
Tiny(t)  == [fix |-> 0, tiny |-> t, exact |-> TRUE]
Approx(f) == [fix |-> f, tiny |-> 0, exact |-> FALSE]

\* Math.cos(rotRad), Math.sin(rotRad), absolute values
TrigTable(degrees) ==
    CASE degrees = 0    -> Trig(One, Zero)
      [] degrees = 30   -> Trig(Approx(86602), Approx(49999))
      [] degrees = 45   -> Trig(Approx(70710), Approx(70710))
      [] degrees = 90   -> Trig(Tiny(72290), One)
      [] degrees = -90  -> Trig(Tiny(72290), One)
      [] degrees = 180  -> Trig(One, Tiny(144581))
      [] degrees = -180 -> Trig(One, Tiny(144581))
      [] degrees = 270  -> Trig(Tiny(216871), One)
      [] degrees = 360  -> Trig(One, Tiny(289162))

RECURSIVE Pow2Floor(_)
Pow2Floor(n) == IF n < 2 THEN 1 ELSE 2 * Pow2Floor(n \div 2)

\* the distance between n and the next double above it, in units of 2^-70
Ulp(n) == Pow2Floor(n) * TinyPerOne

\* Math.ceil(Math.abs(a * x) + Math.abs(b * y)) for positive integers x, y:
\* an integer sum plus a residue is rounded to the nearest double before the ceil
CeilOfSum(a, x, b, y) ==
    LET fix  == a.fix * x + b.fix * y
        tiny == a.tiny * x + b.tiny * y
        whole == fix \div Scale
    IN  IF a.exact /\ b.exact
        THEN IF tiny = 0 \/ (whole > 0 /\ 2 * tiny < Ulp(whole)) THEN whole ELSE whole + 1
        ELSE whole + 1

\* the same with Math.sin and Math.cos exchanged
getRotatedSizeSwapped(width, height, degrees) ==
    LET t == TrigTable(degrees)
    IN  [width  |-> CeilOfSum(t.sin, width, t.cos, height),
         height |-> CeilOfSum(t.cos, width, t.sin, height)]

getRotatedSize(width, height, degrees) ==
    LET t == TrigTable(degrees)
    IN  [width  |-> CeilOfSum(t.cos, width, t.sin, height),
         height |-> CeilOfSum(t.sin, width, t.cos, height)]

(***************************************************************************)
(* getCroppedImg, statement by statement, with its two canvases            *)
(***************************************************************************)
ImageSizes == { [width |-> 400, height |-> 300], [width |-> 200, height |-> 200],
                [width |-> 640, height |-> 480], [width |-> 250, height |-> 250] }

PixelCrops == { [x |-> 0, y |-> 0, width |-> 400, height |-> 300],
                [x |-> 0, y |-> 0, width |-> 200, height |-> 200],
                [x |-> 0, y |-> 0, width |-> 250, height |-> 250],
                [x |-> 50, y |-> 20, width |-> 120, height |-> 90],
                [x |-> -10, y |-> 0, width |-> 100, height |-> 100],
                [x |-> 600, y |-> 450, width |-> 100, height |-> 100],
                [x |-> 10, y |-> 10, width |-> 0, height |-> 0] }

Flips == { [horizontal |-> h, vertical |-> v] : h, v \in BOOLEAN }

\* document.createElement('canvas'): 300 x 150 until it is sized
NoCanvas  == [created |-> FALSE, width |-> 0, height |-> 0]
NewCanvas == [created |-> TRUE, width |-> 300, height |-> 150]
Sized(size) == [created |-> TRUE, width |-> size.width, height |-> size.height]
Released == [created |-> TRUE, width |-> 0, height |-> 0]

NotEncoded == [called |-> FALSE, width |-> 0, height |-> 0, dataUrl |-> NULL]

\* the source pixels whose place in the output is followed: the four corners
\* and the second pixel of the top row
Samples(image) ==
    { [x |-> 0, y |-> 0], [x |-> 1, y |-> 0], [x |-> image.width - 1, y |-> 0],
      [x |-> 0, y |-> image.height - 1],
      [x |-> image.width - 1, y |-> image.height - 1] }

\* ctx.rotate((rotation * Math.PI) / 180) as a number of clockwise quarter
\* turns; -1 when the angle is not a multiple of 90 degrees
QuarterTurns(degrees) ==
    IF degrees % 90 # 0 THEN -1 ELSE (degrees \div 90) % 4

\* ctx.rotate applied to the vector v (y grows downwards)
Rotate(v, turns) ==
    CASE turns = 0 -> v
      [] turns = 1 -> [x |-> -v.y, y |-> v.x]
      [] turns = 2 -> [x |-> -v.x, y |-> -v.y]
      [] turns = 3 -> [x |-> v.y, y |-> -v.x]

\* ctx.scale(flip.horizontal ? -1 : 1, flip.vertical ? -1 : 1)
NoFlipScale(v, flip) == v
FlipScale(v, flip) ==
    [x |-> IF flip.horizontal THEN -v.x ELSE v.x,
     y |-> IF flip.vertical THEN -v.y ELSE v.y]

\* translate(buffer / 2); rotate; scale; translate(-image / 2) applied to a
\* point given in half pixels: the result is in half pixels of the buffer
ToBuffer(pt, image, buffer, turns, flip) ==
    LET centred == [x |-> pt.x - image.width, y |-> pt.y - image.height]
        turned  == Rotate(FlipScale(centred, flip), turns)
    IN  [x |-> turned.x + buffer.width, y |-> turned.y + buffer.height]

Blended == [kind |-> "blended"]
Outside == [kind |-> "outside"]

\* bufferCtx.drawImage(image, 0, 0) under the transform: the buffer pixel
\* that receives source pixel px, or Blended when the pixel's square does not
\* fall on one buffer pixel
BufferPixel(px, image, buffer, degrees, flip) ==
    LET turns == QuarterTurns(degrees)
    IN  IF turns = -1 THEN Blended
        ELSE LET a == ToBuffer([x |-> 2 * px.x, y |-> 2 * px.y], image, buffer, turns, flip)
                 b == ToBuffer([x |-> 2 * px.x + 2, y |-> 2 * px.y + 2], image, buffer,
                               turns, flip)
                 left == Min(a.x, b.x)
                 top  == Min(a.y, b.y)
             IN  IF left % 2 # 0 \/ top % 2 # 0 THEN Blended
                 ELSE [kind |-> "pixel", col |-> left \div 2, row |-> top \div 2]

\* outputCtx.drawImage(bufferCanvas, pixelCrop.x, pixelCrop.y, pixelCrop.width,
\* pixelCrop.height, 0, 0, pixelCrop.width, pixelCrop.height): where source
\* pixel px ends up in the output canvas
OutputPixel(px, image, buffer, pixelCrop, degrees, flip) ==
    LET at == BufferPixel(px, image, buffer, degrees, flip)
    IN  IF at.kind # "pixel" THEN at
        ELSE IF /\ at.col >= pixelCrop.x /\ at.col < pixelCrop.x + pixelCrop.width
                /\ at.row >= pixelCrop.y /\ at.row < pixelCrop.y + pixelCrop.height
             THEN [kind |-> "pixel", col |-> at.col - pixelCrop.x, row |-> at.row - pixelCrop.y]
             ELSE Outside

\* a canvas together with the places of the followed source pixels on it
Drawn(canvas, pixels) ==
    [created |-> canvas.created, width |-> canvas.width, height |-> canvas.height,
     pixels |-> pixels]

\* outputCanvas.width = pixelCrop.width; outputCanvas.height = pixelCrop.height
SizeOutputAsCreated(pixelCrop) == NewCanvas
SizeOutput(pixelCrop) == Sized(pixelCrop)

RenderIdle ==
    /\ rInput = [image |-> [width |-> 0, height |-> 0], pixelCrop |-> NoArea, rotation |-> 0,
                 flip |-> [horizontal |-> FALSE, vertical |-> FALSE],
                 platform |-> [fail |-> "none", dataUrl |-> NULL]]
    /\ rPc = "idle"
    /\ rExit = NULL
    /\ bufferCanvas = NoCanvas
    /\ outputCanvas = NoCanvas
    /\ rEncoded = NotEncoded
    /\ rResult = NULL

InitRender ==
    /\ rInput \in [image : ImageSizes, pixelCrop : PixelCrops, rotation : Angles,
                   flip : Flips, platform : PlatformOutcomes]
    /\ rPc = "loadImage"
    /\ rExit = NULL
    /\ bufferCanvas = NoCanvas
    /\ outputCanvas = NoCanvas
    /\ rEncoded = NotEncoded
    /\ rResult = NULL

\* the call settles: by a throw on path `exit`, or by its return
Settle(exit, result) ==
    /\ rPc' = "done"
    /\ rExit' = exit
    /\ rResult' = result

\* const image = await loadImageWithCORS(imageSrc)
LoadImageWithCORS ==
    /\ rPc = "loadImage"
    /\ IF rInput.platform.fail \in {"imageError", "imageTimeout"}
       THEN Settle("imageLoad", "rejected")
       ELSE rPc' = "bufferCanvas" /\ UNCHANGED <<rExit, rResult>>
    /\ UNCHANGED <<rInput, bufferCanvas, outputCanvas, rEncoded, outsideRender>>

\* the buffer canvas: context, size by getRotatedSize, fill, transform, draw
DrawBuffer ==
    /\ rPc = "bufferCanvas"
    /\ IF rInput.platform.fail = "noBufferContext"
       THEN /\ bufferCanvas' = NewCanvas
            /\ Settle("bufferContext", "rejected")
       ELSE /\ bufferCanvas' = Sized(getRotatedSize(rInput.image.width, rInput.image.height,
                                                    rInput.rotation))
            /\ rPc' = "outputCanvas"
            /\ UNCHANGED <<rExit, rResult>>
    /\ UNCHANGED <<rInput, outputCanvas, rEncoded, outsideRender>>

\* the output canvas: size by the crop rectangle, context, fill, drawImage of the
\* crop rectangle (the platform clips a source rectangle to the buffer, it does not throw)
DrawOutput ==
    /\ rPc = "outputCanvas"
    /\ outputCanvas' =
          Drawn(SizeOutput(rInput.pixelCrop),
                [px \in Samples(rInput.image) |->
                    OutputPixel(px, rInput.image, bufferCanvas, rInput.pixelCrop,
                                rInput.rotation, rInput.flip)])
    /\ IF rInput.platform.fail = "noOutputContext"
       THEN Settle("outputContext", "rejected")
       ELSE rPc' = "encode" /\ UNCHANGED <<rExit, rResult>>
    /\ UNCHANGED <<rInput, bufferCanvas, rEncoded, outsideRender>>

\* try { toDataURL, check, return } catch { throw } finally { release both canvases }
Encode ==
    /\ rPc = "encode"
    /\ IF rInput.platform.fail = "toDataURLThrows"
       THEN /\ rEncoded' = [called |-> TRUE, width |-> outputCanvas.width,
                            height |-> outputCanvas.height, dataUrl |-> NULL,
                            pixels |-> outputCanvas.pixels]
            /\ Settle("encode", "rejected")
       ELSE LET base64Image == toDataURL(outputCanvas, rInput.platform)
            IN  /\ rEncoded' = [called |-> TRUE, width |-> outputCanvas.width,
                                height |-> outputCanvas.height, dataUrl |-> base64Image,
                                pixels |-> outputCanvas.pixels]
                /\ IF EncoderRejects(base64Image)
                   THEN Settle("encode", "rejected")
                   ELSE Settle("return", base64Image)
    /\ bufferCanvas' = Released
    /\ outputCanvas' = Released
    /\ UNCHANGED <<rInput, outsideRender>>

NextRender == LoadImageWithCORS \/ DrawBuffer \/ DrawOutput \/ Encode

(***************************************************************************)
(* ImageEditor.handleSave and the close button                             *)
(***************************************************************************)
Remove(f, id) == [i \in DOMAIN f \ {id} |-> f[i]]

AtPc(id, p) == id \in DOMAIN runs /\ runs[id].pc = p

Goto(id, p) == runs' = [runs EXCEPT ![id].pc = p]

\* if (!imageUrl || !croppedAreaPixels) return   (the basic editor tests the area only)
SelectionNotRequired == TRUE
HasSelection ==
    ~((editorVariant = "full" /\ imageUrl = NULL) \/ croppedAreaPixels = NoArea)

handleSave ==
    /\ editorOpen
    /\ SaveButtonEnabled
    /\ calls.started < MaxSaves
    /\ IF ~HasSelection
       THEN /\ toasts' = IF editorVariant = "full"
                         THEN toasts \cup {"Please make a selection first"} ELSE toasts
            /\ UNCHANGED <<saving, runs, calls>>
       ELSE /\ saving' = TRUE
            /\ runs' = (calls.started + 1 :> [pc |-> "render", payload |-> NULL,
                                              snap |-> EditState]) @@ runs
            /\ calls' = [calls EXCEPT !.started = @ + 1]
            /\ toasts' = toasts
    /\ UNCHANGED <<outsideEditor, editorVariant, host, editorOpen, editVars, edits,
                   hostSaving, onSaveArg, lastEncode, storage>>

CloseClick ==
    /\ editorOpen
    /\ CloseButtonEnabled
    /\ editorOpen' = FALSE
    /\ calls' = [calls EXCEPT !.onClose = @ + 1]
    /\ UNCHANGED <<outsideEditor, editorVariant, host, editVars, edits, saving, runs,
                   hostSaving, toasts, onSaveArg, lastEncode, storage>>

\* catch and finally of handleSave: getCroppedImg rejected or the result was not an image
SaveFailed(id) ==
    /\ toasts' = IF editorVariant = "full"
                 THEN toasts \cup {"Failed to save image. Please try again."}
                 ELSE toasts
    /\ saving' = FALSE
    /\ runs' = Remove(runs, id)
    /\ UNCHANGED <<editorOpen, hostSaving, calls, onSaveArg, storage>>

\* `await onSave(...)` resolved (neither host ever rejects): the rest of handleSave
EditorResumes(id, hostToasts, hostLeftOpen, c) ==
    /\ runs' = Remove(runs, id)
    /\ hostSaving' = FALSE
    /\ saving' = FALSE
    /\ IF editorVariant = "full"
       THEN /\ toasts' = hostToasts \cup {"Image saved successfully"}
            /\ calls' = [c EXCEPT !.onClose = @ + 1]
            /\ editorOpen' = FALSE
       ELSE /\ toasts' = hostToasts
            /\ calls' = c
            /\ editorOpen' = hostLeftOpen

\* the catch and finally blocks of the host's onSave handler; `raised` are the
\* notifications of the collaborator that threw
HostCatch(id, c, raised) ==
    EditorResumes(id, toasts \cup raised \cup {"Failed to save edited image"},
                  IF host = "PatientDetails" THEN FALSE ELSE editorOpen, c)

\* onSave(croppedImage) is called: the host handler runs up to its first await
OnSaveInvoked(id, croppedImage) ==
    LET c == [calls EXCEPT !.onSave = @ + 1]
    IN  /\ onSaveArg' = croppedImage
        /\ storage' = storage
        /\ IF host = "FilePreview"
           THEN IF ~StartsWith(croppedImage, "data:image/") \/ SplitComma1(croppedImage) = ""
                THEN HostCatch(id, c, {})
                ELSE /\ hostSaving' = TRUE
                     /\ runs' = [runs EXCEPT ![id].pc = "fp_uploadMain",
                                             ![id].payload = croppedImage]
                     /\ calls' = c
                     /\ UNCHANGED <<editorOpen, saving, toasts>>
           ELSE /\ runs' = [runs EXCEPT ![id].pc = "pd_fetch", ![id].payload = croppedImage]
                /\ calls' = c
                /\ UNCHANGED <<editorOpen, saving, toasts, hostSaving>>

\* getCroppedImg settles and handleSave continues
RenderSettles(id, o) ==
    /\ AtPc(id, "render")
    /\ LET r == getCroppedImg(runs[id].snap.croppedAreaPixels, o)
       IN  /\ lastEncode' = [dataUrl |-> r.encoded, rejected |-> r.rejected]
           /\ IF r.rejected
              THEN SaveFailed(id)
              ELSE IF editorVariant = "full" /\ ~StartsWith(r.value, "data:image/")
                   THEN SaveFailed(id)
                   ELSE OnSaveInvoked(id, r.value)
    /\ UNCHANGED <<outsideEditor, editorVariant, host, editVars, edits>>

(***************************************************************************)
(* FilePreview.handleEditComplete, one action per await                    *)
(***************************************************************************)
Advance(id, p) ==
    /\ Goto(id, p)
    /\ UNCHANGED <<editorOpen, saving, hostSaving, toasts, calls>>

HostFrame == UNCHANGED <<outsideEditor, editorVariant, host, editVars, edits, onSaveArg, lastEncode>>

WithObject(o)    == [storage EXCEPT !.objects = @ \cup {o}]
WithoutObject(o) == [storage EXCEPT !.objects = @ \ {o}]

\* await uploadString(storageRef, base64Data, ...): the edited image goes to a new path
FpUploadMain(id, ok) ==
    /\ AtPc(id, "fp_uploadMain")
    /\ IF ok
       THEN storage' = WithObject("edited") /\ Advance(id, "fp_decode")
       ELSE storage' = storage /\ HostCatch(id, calls, {})
    /\ HostFrame

\* await new Promise(resolve => { img.onload = resolve }): no onerror handler is
\* installed, so an error event leaves the promise pending for ever
FpThumbnailImage(id, ev, ctx) ==
    /\ AtPc(id, "fp_decode")
    /\ storage' = storage
    /\ IF ev = "load"
       THEN IF ctx THEN Advance(id, "fp_uploadThumb") ELSE HostCatch(id, calls, {})
       ELSE Advance(id, "fp_pending")
    /\ HostFrame

FpUploadThumb(id, ok) ==
    /\ AtPc(id, "fp_uploadThumb")
    /\ IF ok
       THEN storage' = WithObject("edited_thumb") /\ Advance(id, "fp_urlMain")
       ELSE storage' = storage /\ HostCatch(id, calls, {})
    /\ HostFrame

FpGetUrlMain(id, ok) ==
    /\ AtPc(id, "fp_urlMain")
    /\ storage' = storage
    /\ IF ok THEN Advance(id, "fp_urlThumb") ELSE HostCatch(id, calls, {})
    /\ HostFrame

FpGetUrlThumb(id, ok) ==
    /\ AtPc(id, "fp_urlThumb")
    /\ storage' = storage
    /\ IF ok THEN Advance(id, "fp_updateDoc") ELSE HostCatch(id, calls, {})
    /\ HostFrame

\* await updateDoc(fileRef, ...), then setIsEditing(false), toast.success, finally
FpUpdateDoc(id, ok) ==
    /\ AtPc(id, "fp_updateDoc")
    /\ IF ok
       THEN /\ storage' = [storage EXCEPT !.docs = ("f1" :> "edited") @@ @]
            /\ EditorResumes(id, toasts \cup {"Image edited and saved successfully"},
                             FALSE, calls)
       ELSE storage' = storage /\ HostCatch(id, calls, {})
    /\ HostFrame

(***************************************************************************)
(* PatientDetails.handleSaveEdit with deleteFile and uploadFile inlined    *)
(***************************************************************************)
\* await fetch(editedImageUrl); await base64Response.blob()
PdFetch(id, ok) ==
    /\ AtPc(id, "pd_fetch")
    /\ storage' = storage
    /\ IF ok THEN Advance(id, "pd_deleteMain") ELSE HostCatch(id, calls, {})
    /\ HostFrame

\* deleteFile: await deleteObject(storageRef) on the ORIGINAL file's path
PdDeleteMain(id, ok) ==
    /\ AtPc(id, "pd_deleteMain")
    /\ IF ok
       THEN storage' = WithoutObject("orig") /\ Advance(id, "pd_deleteThumb")
       ELSE storage' = storage /\ HostCatch(id, calls, {"Failed to delete file"})
    /\ HostFrame

\* deleteFile: the thumbnail's deletion, its failure swallowed
PdDeleteThumb(id, ok) ==
    /\ AtPc(id, "pd_deleteThumb")
    /\ storage' = IF ok THEN WithoutObject("orig_thumb") ELSE storage
    /\ Advance(id, "pd_deleteDoc")
    /\ HostFrame

\* deleteFile: await deleteDoc(doc(db, 'files', fileId))
PdDeleteDoc(id, ok) ==
    /\ AtPc(id, "pd_deleteDoc")
    /\ IF ok
       THEN /\ storage' = [storage EXCEPT !.docs = Remove(@, "f1")]
            /\ Goto(id, "pd_getPatient")
            /\ toasts' = toasts \cup {"File deleted successfully"}
            /\ UNCHANGED <<editorOpen, saving, hostSaving, calls>>
       ELSE storage' = storage /\ HostCatch(id, calls, {"Failed to delete file"})
    /\ HostFrame

\* uploadFile: await getDoc(doc(db, 'patients', patientId))
PdGetPatient(id, ok) ==
    /\ AtPc(id, "pd_getPatient")
    /\ storage' = storage
    /\ IF ok THEN Advance(id, "pd_thumbnail")
       ELSE HostCatch(id, calls, {"Failed to upload file"})
    /\ HostFrame

\* uploadFile: thumbnail generation and upload, any failure swallowed
PdThumbnail(id, uploaded) ==
    /\ AtPc(id, "pd_thumbnail")
    /\ storage' = IF uploaded THEN WithObject("reup_thumb") ELSE storage
    /\ Advance(id, "pd_uploadMain")
    /\ HostFrame

\* uploadFile: await uploadBytes(storageRef, file, metadata)
PdUploadMain(id, ok) ==
    /\ AtPc(id, "pd_uploadMain")
    /\ IF ok
       THEN storage' = WithObject("reup") /\ Advance(id, "pd_getUrl")
       ELSE storage' = storage /\ HostCatch(id, calls, {"Failed to upload file"})
    /\ HostFrame

PdGetUrl(id, ok) ==
    /\ AtPc(id, "pd_getUrl")
    /\ storage' = storage
    /\ IF ok THEN Advance(id, "pd_addDoc")
       ELSE HostCatch(id, calls, {"Failed to upload file"})
    /\ HostFrame

\* uploadFile: await addDoc(collection(db, 'files'), docData)
PdAddDoc(id, ok) ==
    /\ AtPc(id, "pd_addDoc")
    /\ IF ok
       THEN /\ storage' = [storage EXCEPT !.docs = ("f2" :> "reup") @@ @]
            /\ Goto(id, "pd_loadFiles")
            /\ toasts' = toasts \cup {"File uploaded successfully"}
            /\ UNCHANGED <<editorOpen, saving, hostSaving, calls>>
       ELSE storage' = storage /\ HostCatch(id, calls, {"Failed to upload file"})
    /\ HostFrame

\* await loadFiles() (it catches its own failure), toast.success, finally
PdLoadFiles(id, ok) ==
    /\ AtPc(id, "pd_loadFiles")
    /\ storage' = storage
    /\ EditorResumes(id, toasts \cup {"Image edited and saved successfully"}
                             \cup (IF ok THEN {} ELSE {"Failed to load files"}),
                     FALSE, calls)
    /\ HostFrame

(***************************************************************************)
(* One edit session: the image is loaded, the editor is open.              *)
(***************************************************************************)
RunIds == 1..(MaxSaves + 1)

InitE ==
    /\ InitEditor
    /\ hookVariant = "ts"
    /\ url \in { u \in URLs : FirstPhase(u) = "url" }
    /\ mounted = TRUE
    /\ imageUrl = url
    /\ loading = FALSE
    /\ error = NULL
    /\ retryCount = 0
    /\ tasks = {}
    /\ RenderIdle
    /\ ViewIdle
    /\ CropperIdle
    /\ FilesIdle
    /\ CategoriesIdle

SaveStep ==
    \/ \E id \in RunIds, o \in PlatformOutcomes : RenderSettles(id, o)
    \/ \E id \in RunIds, ok \in BOOLEAN : FpUploadMain(id, ok)
    \/ \E id \in RunIds, ev \in {"load", "error"}, ctx \in BOOLEAN : FpThumbnailImage(id, ev, ctx)
    \/ \E id \in RunIds, ok \in BOOLEAN : FpUploadThumb(id, ok)
    \/ \E id \in RunIds, ok \in BOOLEAN : FpGetUrlMain(id, ok)
    \/ \E id \in RunIds, ok \in BOOLEAN : FpGetUrlThumb(id, ok)
    \/ \E id \in RunIds, ok \in BOOLEAN : FpUpdateDoc(id, ok)
    \/ \E id \in RunIds, ok \in BOOLEAN : PdFetch(id, ok)
    \/ \E id \in RunIds, ok \in BOOLEAN : PdDeleteMain(id, ok)
    \/ \E id \in RunIds, ok \in BOOLEAN : PdDeleteThumb(id, ok)
    \/ \E id \in RunIds, ok \in BOOLEAN : PdDeleteDoc(id, ok)
    \/ \E id \in RunIds, ok \in BOOLEAN : PdGetPatient(id, ok)
    \/ \E id \in RunIds, up \in BOOLEAN : PdThumbnail(id, up)
    \/ \E id \in RunIds, ok \in BOOLEAN : PdUploadMain(id, ok)
    \/ \E id \in RunIds, ok \in BOOLEAN : PdGetUrl(id, ok)
    \/ \E id \in RunIds, ok \in BOOLEAN : PdAddDoc(id, ok)
    \/ \E id \in RunIds, ok \in BOOLEAN : PdLoadFiles(id, ok)

UserStep ==
    \/ \E p \in CropPoints : onCropChange(p)
    \/ \E a \in Areas : onCropComplete(a)
    \/ \E z \in ZoomInputs : onZoomChange(z)
    \/ \E r \in RotationInputs : RotationSlider(r)
    \/ RotateLeft
    \/ RotateRight
    \/ ZoomIn
    \/ ZoomOut
    \/ FlipHorizontal
    \/ FlipVertical
    \/ handleSave
    \/ CloseClick

NextE == SaveStep \/ UserStep

SpecEditor == InitE /\ [][NextE]_vars

(***************************************************************************)
(* One call of getCroppedImg on its own                                    *)
(***************************************************************************)
InitR ==
    /\ InitRender
    /\ InitEditor /\ editorVariant = "full" /\ host = "FilePreview"
    /\ hookVariant = "ts"
    /\ url = "blob:local"
    /\ mounted = TRUE
    /\ imageUrl = url
    /\ loading = FALSE
    /\ error = NULL
    /\ retryCount = 0
    /\ tasks = {}
    /\ ViewIdle
    /\ CropperIdle
    /\ FilesIdle
    /\ CategoriesIdle

NextR == NextRender

SpecRender == InitR /\ [][NextR]_vars

(***************************************************************************)
(* The patient-details view on its own                                     *)
(***************************************************************************)
LoaderIdle ==
    /\ hookVariant = "ts"
    /\ url = "blob:local"
    /\ mounted = TRUE
    /\ imageUrl = url
    /\ loading = FALSE
    /\ error = NULL
    /\ retryCount = 0
    /\ tasks = {}

EditorIdle == InitEditor /\ editorVariant = "full" /\ host = "FilePreview"

InitV == InitView /\ LoaderIdle /\ EditorIdle /\ RenderIdle /\ CropperIdle /\ FilesIdle /\ CategoriesIdle

NextV == NextView

SpecView == InitV /\ [][NextV]_vars

(***************************************************************************)
(* ImageCropper on its own                                                 *)
(***************************************************************************)
InitC ==
    /\ InitCropper
    /\ LoaderIdle /\ EditorIdle /\ RenderIdle /\ ViewIdle /\ FilesIdle /\ CategoriesIdle

NextC == NextCropper

SpecCropper == InitC /\ [][NextC]_vars

(***************************************************************************)
(* The fetch-based editor's loader on its own                              *)
(***************************************************************************)
InitI ==
    /\ InitInline /\ InitEditor /\ editorVariant = "full" /\ host = "FilePreview"
    /\ RenderIdle /\ ViewIdle /\ CropperIdle /\ FilesIdle /\ CategoriesIdle

NextI == NextInline

SpecInline == InitI /\ [][NextI]_vars

(***************************************************************************)
(* FileProvider on its own                                                 *)
(***************************************************************************)
InitF ==
    /\ InitFiles
    /\ LoaderIdle /\ EditorIdle /\ RenderIdle /\ ViewIdle /\ CropperIdle /\ CategoriesIdle

NextF == NextFiles

SpecFiles == InitF /\ [][NextF]_vars

NextU == NextUploads

SpecUploads == InitF /\ [][NextU]_vars

(***************************************************************************)
(* The category list on its own                                            *)
(***************************************************************************)
InitG ==
    /\ InitCategories
    /\ LoaderIdle /\ EditorIdle /\ RenderIdle /\ ViewIdle /\ CropperIdle /\ FilesIdle

NextG == NextCategories

SpecCategories == InitG /\ [][NextG]_vars

(***************************************************************************)
(* The hook on its own: the editor is not part of this specification.      *)
(***************************************************************************)
InitL ==
    /\ InitLoader /\ InitEditor /\ editorVariant = "full" /\ host = "FilePreview"
    /\ RenderIdle /\ ViewIdle /\ CropperIdle /\ FilesIdle /\ CategoriesIdle

NextL == NextLoader

SpecLoader == InitL /\ [][NextL]_vars

\* every pending await and timer of a load attempt settles eventually
AttemptSettles ==
    \E t \in tasks : \/ DownloadUrlResolved(t) \/ DownloadUrlRejected(t)
                     \/ ImageOnload(t) \/ ImageOnerror(t) \/ RetryTimerFires(t)

SpecLoaderFair == SpecLoader /\ WF_vars(AttemptSettles)

(***************************************************************************)
(* C1: automatic retry is bounded: for a URL whose load fails every time,  *)
(* a retry chain makes at most 1 + maxRetries (= 4) load attempts after    *)
(* mount or after a manual retryLoading (t.n is the attempt's number       *)
(* within its chain).                                                      *)
(***************************************************************************)
C1_AttemptCap == \A t \in tasks : t.n <= 1 + maxRetries

\* C20: within one load cycle the timer armed after the failure of attempt
\* n + 1 (the n-th automatic retry, n = 0, 1, 2) has the delay
\* min(1000 * 2^n, 8000) ms: 1000, 2000, 4000.
C20_ExponentialBackoff ==
    \A t \in tasks :
        (t.phase = "timer" /\ t.n <= maxRetries)
            => t.delay = (IF 1000 * 2^(t.n - 1) > 8000 THEN 8000 ELSE 1000 * 2^(t.n - 1))

\* C24: in every variant of useImageLoader, once loading has been set (by
\* the mount or by retryLoading) and the pending attempts settle, loading
\* becomes false again with imageUrl or error set, as long as the component
\* stays mounted.
C24_RetryLoadingSettles ==
    (mounted /\ loading) ~> (~mounted \/ (~loading /\ (imageUrl # NULL \/ error # NULL)))

(***************************************************************************)
(* C10: a new session discards the prior one: once the url has changed, a  *)
(* load or retry timer of a previous url no longer sets imageUrl, error or *)
(* loading, and the load started for the new url has its retry counter at  *)
(* 0.                                                                      *)
(***************************************************************************)
C10_PriorSessionDiscarded ==
    [][ /\ \A t \in tasks :
              (t.target # url /\ t \notin tasks') => UNCHANGED <<imageUrl, error, loading>>
        /\ (url' # url) =>
              \A t \in tasks' \ tasks : (t.target = url' /\ t.n = 1) => t.rc = 0
      ]_vars


(***************************************************************************)
(* Properties of one save, checked under SpecEditor                        *)
(***************************************************************************)
SaveErrorToast == "Failed to save image. Please try again."
HostErrorToast == "Failed to save edited image"
SuccessToasts  == {"Image saved successfully", "Image edited and saved successfully"}

\* C2: when getCroppedImg rejects, or its result is not a 'data:image/' string,
\* during handleSave of ImageEditor.tsx, the step that handles the failure
\* leaves saving false, shows the error notification, calls neither onSave nor
\* onClose, and crop, zoom, rotation, flipH and flipV are exactly the values
\* they had when the save started.
C2_FailedRenderReturnsToReady ==
    [][ \A id \in DOMAIN runs :
          ( /\ editorVariant = "full"
            /\ runs[id].pc = "render"
            /\ id \notin DOMAIN runs'
            /\ \/ lastEncode'.rejected
               \/ ~StartsWith(lastEncode'.dataUrl, "data:image/") )
          => /\ ~saving'
             /\ SaveErrorToast \in toasts'
             /\ calls'.onSave = calls.onSave
             /\ calls'.onClose = calls.onClose
             /\ crop' = runs[id].snap.crop
             /\ zoom' = runs[id].snap.zoom
             /\ rotation' = runs[id].snap.rotation
             /\ flipH' = runs[id].snap.flipH
             /\ flipV' = runs[id].snap.flipV
      ]_vars

\* C3: when a collaborator call throws inside the host's onSave handler, the
\* step that surfaces the error reports no success, leaves the editor open
\* and not saving, and keeps crop, zoom, rotation, flipH and flipV.
C3_PersistenceFailureKeepsSession ==
    [][ (HostErrorToast \notin toasts /\ HostErrorToast \in toasts')
          => /\ editorOpen'
             /\ ~saving'
             /\ toasts' \cap SuccessToasts = {}
             /\ UNCHANGED <<crop, zoom, rotation, flipH, flipV>>
      ]_vars

\* C4: whenever the platform encoder returned "" or "data:,", getCroppedImg
\* rejected; and every argument onSave was called with starts with "data:image/".
C4_NoDegeneratePayload ==
    /\ lastEncode.dataUrl \in {"", "data:,"} => lastEncode.rejected
    /\ onSaveArg # NULL => StartsWith(onSaveArg, "data:image/")

\* a first save handed an image payload to onSave, and a later save's encoder
\* returned the placeholder, which getCroppedImg rejected
C4_Witness ==
    /\ onSaveArg # NULL
    /\ calls.onSave = 1
    /\ lastEncode.dataUrl = "data:,"
    /\ lastEncode.rejected

\* C5: the original upload's storage object exists in every state, whatever
\* step of a save has been reached and however the save ended.
C5_OriginalObjectKept == "orig" \in storage.objects

\* C6: at most one save run (render, encode, onSave) is in flight, and onSave
\* has been invoked at most once per save that was started.
C6_OneSaveInFlight ==
    /\ Cardinality(DOMAIN runs) <= 1
    /\ calls.onSave <= calls.started
    /\ calls.onSave + Cardinality({ id \in DOMAIN runs : runs[id].pc = "render" })
          <= calls.started

\* the second save of the session is in flight, the first having called onSave
C6_Witness ==
    /\ calls.started = 2
    /\ calls.onSave = 1
    /\ saving
    /\ DOMAIN runs = {2}

\* C7: no step taken while a save is in flight (saving before and after the
\* step) changes crop, zoom, rotation, flipH or flipV.
C7_ControlsDisabledWhileSaving ==
    [][ (saving /\ saving') => UNCHANGED <<crop, zoom, rotation, flipH, flipV>> ]_vars

\* C8: onSave is never invoked once onClose has been invoked.
C8_NoOnSaveAfterClose ==
    [][ (calls'.onSave > calls.onSave) => calls.onClose = 0 ]_vars

\* C9: a save whose saving flag is set (the editor's or FilePreview's) can
\* always take a further step: it never waits on something that cannot
\* settle, so with every pending call settling the flag is cleared.
C9_SaveNeverStuck ==
    (saving \/ hostSaving) => ENABLED SaveStep

\* C11: a save runs only with a crop selection: every run in flight was started
\* from a non-null croppedAreaPixels, and as long as no selection exists no
\* save has started, nothing was rendered or encoded, onSave was not called
\* and saving is false, whatever number of Save clicks happened.
C11_SaveRequiresSelection ==
    /\ \A id \in DOMAIN runs : runs[id].snap.croppedAreaPixels # NoArea
    /\ croppedAreaPixels = NoArea =>
          /\ ~saving
          /\ runs = NoRuns
          /\ calls.started = 0
          /\ calls.onSave = 0
          /\ lastEncode.dataUrl = NULL /\ ~lastEncode.rejected

\* Save was clicked without a selection: the full editor said so, nothing else happened
C11_Witness ==
    /\ croppedAreaPixels = NoArea
    /\ "Please make a selection first" \in toasts
    /\ ~saving
    /\ calls.started = 0

\* C15: zoom (in tenths) stays within [1, 3] in both editors, whatever zoom-in
\* and zoom-out clicks, zoom-slider changes and Cropper zoom changes happen.
C15_ZoomInRange == ZoomMin <= zoom /\ zoom <= ZoomMax

\* the slider went to 3 and a zoom-out click took 0.1 off
C15_Witness == editorVariant = "full" /\ zoom = ZoomMax - ZoomStep /\ edits = 2

(***************************************************************************)
(* Properties of one getCroppedImg call, checked under SpecRender          *)
(***************************************************************************)
\* C12: when a call of getCroppedImg has settled on a path reached after the
\* buffer canvas was sized (its return, an encode failure, no output drawing
\* context), the buffer canvas and the output canvas are both 0 x 0.
C12_BuffersReleased ==
    (rPc = "done" /\ rExit \in {"return", "encode", "outputContext"})
        => /\ bufferCanvas.width = 0 /\ bufferCanvas.height = 0
           /\ outputCanvas.width = 0 /\ outputCanvas.height = 0

CropOutside(pixelCrop, buffer) ==
    \/ pixelCrop.x < 0
    \/ pixelCrop.y < 0
    \/ pixelCrop.x + pixelCrop.width > buffer.width
    \/ pixelCrop.y + pixelCrop.height > buffer.height

\* C13: a call of getCroppedImg whose crop rectangle lies partly or wholly
\* outside the rotated buffer (x < 0, y < 0, x + width > buffer width or
\* y + height > buffer height) settles by rejecting: it returns no payload.
C13_OutOfBoundsCropRejected ==
    ( /\ rPc = "done"
      /\ CropOutside(rInput.pixelCrop,
                     getRotatedSize(rInput.image.width, rInput.image.height, rInput.rotation)) )
        => rResult = "rejected"

\* C17: whenever getCroppedImg encodes (calls toDataURL), the output canvas
\* has exactly the crop rectangle's width and height, for every rotation and
\* every flip setting.
C17_OutputHasCropSize ==
    rEncoded.called =>
        /\ rEncoded.width = rInput.pixelCrop.width
        /\ rEncoded.height = rInput.pixelCrop.height

C17_Witness ==
    /\ rEncoded.called
    /\ rExit = "return"
    /\ rInput.rotation = 90
    /\ rInput.flip = [horizontal |-> TRUE, vertical |-> FALSE]
    /\ rInput.image = [width |-> 400, height |-> 300]
    /\ rEncoded.width = 120
    /\ rEncoded.height = 90

\* the buffer canvas holds the size getRotatedSize returned
BufferSized == rPc \in {"outputCanvas", "encode"}

\* C18 (as amended): the bounding box returned by getRotatedSize is at least
\* min(w, h) in both dimensions for every angle and source size; it is at
\* least (w, h) in both dimensions when the source is square or the angle is
\* a multiple of 180 degrees.
C18_BoundingBoxCoversShortSide ==
    BufferSized =>
        LET w == rInput.image.width
            h == rInput.image.height
        IN  /\ bufferCanvas.width >= Min(w, h)
            /\ bufferCanvas.height >= Min(w, h)
            /\ (w = h \/ rInput.rotation \in {0, 180, -180, 360})
                  => (bufferCanvas.width >= w /\ bufferCanvas.height >= h)

C18_Witness ==
    /\ BufferSized
    /\ rInput.image = [width |-> 400, height |-> 300]
    /\ rInput.rotation = 90
    /\ bufferCanvas.width = 300
    /\ bufferCanvas.height = 400

\* C18 as stated: width' >= w and height' >= h for every angle and source size
C18_BoundingBoxCoversSource ==
    BufferSized =>
        /\ bufferCanvas.width >= rInput.image.width
        /\ bufferCanvas.height >= rInput.image.height

\* C19: getRotatedSize(w, h, 0) is (w, h), and for a square source
\* getRotatedSize(w, w, theta) is (w, w) for theta = 180, -180 and 360.
C19_ExactAtHalfTurns ==
    BufferSized =>
        /\ rInput.rotation = 0
              => /\ bufferCanvas.width = rInput.image.width
                 /\ bufferCanvas.height = rInput.image.height
        /\ (rInput.image.width = rInput.image.height /\ rInput.rotation \in {180, -180, 360})
              => /\ bufferCanvas.width = rInput.image.width
                 /\ bufferCanvas.height = rInput.image.height

\* the encoded output of a full-frame crop of a source with no failure
FullFrameEncoded ==
    /\ rEncoded.called
    /\ rInput.pixelCrop = [x |-> 0, y |-> 0, width |-> rInput.image.width,
                           height |-> rInput.image.height]

\* C22: for a square source of side n rotated by 90 degrees with no flip and
\* the crop (0, 0, n, n), the source pixel at (x, y) is the output pixel at
\* column n - 1 - y, row x.
C22_QuarterTurnClockwise ==
    ( /\ FullFrameEncoded
      /\ rInput.image.width = rInput.image.height
      /\ rInput.rotation = 90
      /\ rInput.flip = [horizontal |-> FALSE, vertical |-> FALSE] )
        => \A px \in Samples(rInput.image) :
              rEncoded.pixels[px] =
                  [kind |-> "pixel", col |-> rInput.image.width - 1 - px.y, row |-> px.x]

\* C23: with rotation 0 and the full-frame crop, a horizontal flip puts the
\* source pixel at (x, y) at output (w - 1 - x, y), and no flip leaves every
\* source pixel at (x, y).
C23_HorizontalMirror ==
    (FullFrameEncoded /\ rInput.rotation = 0 /\ ~rInput.flip.vertical)
        => \A px \in Samples(rInput.image) :
              rEncoded.pixels[px] =
                  [kind |-> "pixel",
                   col |-> IF rInput.flip.horizontal THEN rInput.image.width - 1 - px.x
                           ELSE px.x,
                   row |-> px.y]

C23_Witness ==
    /\ FullFrameEncoded
    /\ rExit = "return"
    /\ rInput.rotation = 0
    /\ rInput.flip = [horizontal |-> TRUE, vertical |-> FALSE]
    /\ rInput.image = [width |-> 400, height |-> 300]
    /\ rEncoded.pixels[[x |-> 1, y |-> 0]] = [kind |-> "pixel", col |-> 398, row |-> 0]

C16_CropInsideImage ==
    drawSource.called =>
        /\ 0 <= drawSource.x
        /\ 0 <= drawSource.y
        /\ drawSource.x + drawSource.width <= imageObj.width * drawSource.unit
        /\ drawSource.y + drawSource.height <= imageObj.height * drawSource.unit

(***************************************************************************)
(* Properties of the fetch-based editor's loader, checked under SpecInline *)
(***************************************************************************)
\* C21: the error is surfaced (error becomes non-null, loading false) only by
\* the failure of the attempt that follows the initial attempt and 3 retries
\* of its load cycle, that is by the failure of attempt 1 + maxRetries.
C21_ErrorOnlyAfterRetries ==
    [][ (error = NULL /\ error' # NULL)
          => /\ loading' = FALSE
             /\ \E t \in tasks : /\ t.phase = "fetch"
                                 /\ t \notin tasks'
                                 /\ t.n = 1 + maxRetries ]_vars

(***************************************************************************)
(* Properties of FileProvider, checked under SpecFiles and SpecUploads     *)
(***************************************************************************)
\* a deleteFile call has deleted the main object
DeleteFileRan == \E i \in DOMAIN ops : ops[i].kind = "delete" /\ ops[i].mainDeleted

\* C25: whatever step of updateFileGroup fails and however its calls
\* interleave, the file document's path refers to a storage object that
\* exists, and a call that has deleted the old object has before that
\* uploaded the new one and moved the document off the old path.
C25_DocumentPathExists ==
    (~DeleteFileRan /\ 0 \in DOMAIN docs)
        => /\ docs[0].path \in DOMAIN objects
           /\ \A i \in DOMAIN ops :
                 (ops[i].kind = "update" /\ ops[i].mainDeleted)
                     => /\ docs[0].path # ops[i].path
                        /\ ops[i].blob # NULL

C25_Witness ==
    /\ ~DeleteFileRan
    /\ \E i, j \in DOMAIN ops :
          /\ i # j
          /\ ops[i].kind = "update" /\ ops[i].mainDeleted
          /\ ops[j].kind = "update" /\ ops[j].pc = "failed"
          /\ docs[0].path = ops[j].newPath

\* C26: when updateFileGroup has completed, the object at the new path holds
\* the bytes the object at the old path held.
C26_ContentPreserved ==
    \A i \in DOMAIN ops :
        (ops[i].kind = "update" /\ ops[i].pc = "done" /\ ops[i].newPath \in DOMAIN objects)
            => objects[ops[i].newPath] = OriginalBytes

\* C27: a deleteFile call that has settled has removed the file document if
\* and only if it deleted the main storage object.
C27_DocumentRemovedIffMainDeleted ==
    \A i \in DOMAIN ops :
        (ops[i].kind = "delete" /\ ops[i].pc \in {"done", "failed"})
            => (ops[i].docDeleted <=> ops[i].mainDeleted)

\* C30: every document created by uploadFile references an uploaded object;
\* a document of a 3D file has no thumbnail and no thumbnail object, and a
\* document that names a thumbnail has its thumbnail object.
C30_DocumentAfterUpload ==
    \A d \in DOMAIN docs \ {0} :
        /\ docs[d].path \in DOMAIN objects
        /\ docs[d].type = "3D" => (~docs[d].thumbnailUrl /\ d \notin thumbnails)
        /\ docs[d].thumbnailUrl => d \in thumbnails

\* a 2D upload whose thumbnail failed created its document all the same,
\* and a 3D upload created a document too
C30_Witness ==
    \E i, j \in DOMAIN ops :
        /\ ops[i].kind = "upload" /\ ops[i].docCreated /\ ops[i].type = "2D"
        /\ ~docs[ops[i].newPath].thumbnailUrl /\ ops[i].newPath \notin thumbnails
        /\ ops[j].kind = "upload" /\ ops[j].docCreated /\ ops[j].type = "3D"

\* C28: every id in selectedFiles is the id of a file in files.
C28_SelectionWithinFiles == selectedFiles \subseteq Ids(files)

(***************************************************************************)
(* Properties of the category list, checked under SpecCategories           *)
(***************************************************************************)
\* C29: the category list holds trimmed, non-empty, pairwise distinct names,
\* and the persisted list equals it.
C29_CategoriesDistinctNonEmpty ==
    /\ \A i \in 1..Len(categories) :
          /\ categories[i] # ""
          /\ Trim(categories[i]) = categories[i]
          /\ \A j \in 1..Len(categories) : categories[i] = categories[j] => i = j
    /\ persistedCategories = categories

================================================================
